---- MODULE Spec2Model ----
(***************************************************************************)
(* State-machine model of the YouTube channel scraper                      *)
(* (src/server/youtubeScrape.js) and of its pure helpers.                  *)
(*                                                                         *)
(* Strings are modelled as sequences of one-character strings where the    *)
(* code scans them character by character (extractJsonAfterMarker), and    *)
(* as sequences of word tokens where the code matches them with regular    *)
(* expressions (relative dates, count labels).                             *)
(***************************************************************************)
EXTENDS Integers, Sequences, FiniteSets, TLC

VARIABLES
    mode,       \* which entry point this behaviour exercises
    html,       \* extractJsonAfterMarker: the html argument
    exOut,      \* extractJsonAfterMarker: [called, isNull, s] result
    channelUrl, \* scrapeYouTubeChannelData: first argument
    rawMaxVideos, \* scrapeYouTubeChannelData: second argument
    pc,         \* position of the scrapeYouTubeChannelData call
    listing,    \* the listing page received (history)
    top,        \* the stubs selected from the listing
    det,        \* per stub: the state of its fetchVideoDetails call
    videos,     \* the records pushed so far
    requests,   \* every HTTP request issued, in order
    outcome,    \* what the call returned or threw
    arg,        \* the HTTP request body, or the input of a helper called alone
    res,        \* the HTTP response, or what the helper returned or threw
    component,  \* Chat: which of the two Chat components is mounted
    codeKeywords, \* Chat: whether the import of CODE_KEYWORDS gives a RegExp
    activeSessionId, \* Chat: state activeSessionId (null, 'new' or an id)
    streaming,  \* Chat: state streaming
    input,      \* Chat: state input
    sessions,   \* Chat: state sessions, the sidebar list
    messages,   \* Chat: state messages, as the roles of the messages
    dbSessions, \* the sessions collection: ids in order of creation
    sends,      \* Chat: the handleSend invocations, each with its position
    pending,    \* Chat: the getSessions and loadMessages requests not yet answered
    dels,       \* Chat: the handleDeleteSession invocations
    clicks,     \* Chat: calls of handleNewChat, handleSelectSession, handleDeleteSession
    resets,     \* Chat: times a handler made the unsaved 'new' chat active
    users,      \* the users collection: documents in order of insertion
    regs,       \* the POST /api/users requests, each with its position
    round,      \* tool loop: the loop variable round
    response,   \* tool loop: the current response of the model
    toolCalls,  \* tool loop: the list toolCalls
    charts,     \* tool loop: the list charts
    executed    \* tool loop: the names executeFn was called with, in order

\* the state of the scraper, of its route and of the helpers called alone
scrapeVars == <<mode, html, exOut, channelUrl, rawMaxVideos, pc, listing, top, det,
                videos, requests, outcome, arg, res>>
chatVars == <<component, codeKeywords, activeSessionId, streaming, input, sessions, messages, dbSessions, sends,
              pending, dels, clicks, resets>>
userVars == <<users, regs>>
toolVars == <<round, response, toolCalls, charts, executed>>
\* the state of the React client and of the user store
app == <<chatVars, userVars, toolVars>>

-----------------------------------------------------------------------------
(* Bounds *)
MaxBody == 7        \* longest text after the marker
MaxListing == 2     \* most video entries in a listing page
MaxRequested == 2   \* largest numeric maxVideos argument
MaxText == 3        \* longest enumerated count text
MaxDepth == 2       \* deepest enumerated tree
MaxTabs == 3        \* longest enumerated tab list
MaxSegments == 2    \* most marked blobs in an enumerated page
MaxSends == 2       \* handleSend invocations that pass the guard
MaxClicks == 2      \* calls of the session handlers of the sidebar
MaxActs == 3        \* handleSend invocations and sidebar calls together
MaxRegs == 2        \* POST /api/users requests in a behaviour

-----------------------------------------------------------------------------
(* extractJsonAfterMarker                                                  *)

\* the marker argument, e.g. 'ytInitialData = ' (no brace, no quote in it)
Marker == <<"m", "=">>

RECURSIVE SeqsUpTo(_, _)
SeqsUpTo(S, n) ==
    IF n = 0 THEN {<<>>}
    ELSE LET prev == SeqsUpTo(S, n - 1)
         IN  prev \cup {Append(s, c) : s \in {t \in prev : Len(t) = n - 1}, c \in S}

\* String.prototype.indexOf(pat, from), 1-based; 0 stands for -1
RECURSIVE IndexOf(_, _, _)
IndexOf(h, pat, from) ==
    IF from + Len(pat) - 1 > Len(h) THEN 0
    ELSE IF SubSeq(h, from, from + Len(pat) - 1) = pat THEN from
    ELSE IndexOf(h, pat, from + 1)

NullStr == [isNull |-> TRUE, s |-> <<>>]
Str(s) == [isNull |-> FALSE, s |-> s]

\* mutant: the scan without the escape flag (a backslash in a string is an
\* ordinary character)
RECURSIVE ScanJsonNoEscape(_, _, _, _, _, _)
ScanJsonNoEscape(h, firstBrace, i, depth, inString, escape) ==
    IF i > Len(h) THEN NullStr
    ELSE LET ch == h[i] IN
         IF inString THEN
             IF ch = "\"" THEN ScanJsonNoEscape(h, firstBrace, i + 1, depth, FALSE, FALSE)
             ELSE ScanJsonNoEscape(h, firstBrace, i + 1, depth, TRUE, FALSE)
         ELSE IF ch = "\"" THEN ScanJsonNoEscape(h, firstBrace, i + 1, depth, TRUE, FALSE)
         ELSE IF ch = "{" THEN ScanJsonNoEscape(h, firstBrace, i + 1, depth + 1, FALSE, FALSE)
         ELSE IF ch = "}" THEN
             IF depth - 1 = 0 THEN Str(SubSeq(h, firstBrace, i))
             ELSE ScanJsonNoEscape(h, firstBrace, i + 1, depth - 1, FALSE, FALSE)
         ELSE ScanJsonNoEscape(h, firstBrace, i + 1, depth, FALSE, FALSE)

\* the for loop of extractJsonAfterMarker, one iteration per character
RECURSIVE ScanJson(_, _, _, _, _, _)
ScanJson(h, firstBrace, i, depth, inString, escape) ==
    IF i > Len(h) THEN NullStr
    ELSE LET ch == h[i] IN
         IF inString THEN
             IF escape THEN ScanJson(h, firstBrace, i + 1, depth, TRUE, FALSE)
             ELSE IF ch = "\\" THEN ScanJson(h, firstBrace, i + 1, depth, TRUE, TRUE)
             ELSE IF ch = "\"" THEN ScanJson(h, firstBrace, i + 1, depth, FALSE, FALSE)
             ELSE ScanJson(h, firstBrace, i + 1, depth, TRUE, FALSE)
         ELSE IF ch = "\"" THEN ScanJson(h, firstBrace, i + 1, depth, TRUE, escape)
         ELSE IF ch = "{" THEN ScanJson(h, firstBrace, i + 1, depth + 1, FALSE, escape)
         ELSE IF ch = "}" THEN
             IF depth - 1 = 0 THEN Str(SubSeq(h, firstBrace, i))
             ELSE ScanJson(h, firstBrace, i + 1, depth - 1, FALSE, escape)
         ELSE ScanJson(h, firstBrace, i + 1, depth, FALSE, escape)

\* the scan as the code writes it; ScanJson is its loop
ScanFrom(h, firstBrace) == ScanJson(h, firstBrace, firstBrace, 0, FALSE, FALSE)

\* mutant: the `start === -1` test is missing, so indexOf('{', -1) searches
\* the whole html
extractNoMarkerCheck(h, marker) ==
    LET firstBrace == IndexOf(h, <<"{">>, 1) IN
    IF firstBrace = 0 THEN NullStr ELSE ScanFrom(h, firstBrace)

extractJsonAfterMarker(h, marker) ==
    LET start == IndexOf(h, marker, 1) IN
    IF start = 0 THEN NullStr
    ELSE LET firstBrace == IndexOf(h, <<"{">>, start) IN
         IF firstBrace = 0 THEN NullStr
         ELSE ScanFrom(h, firstBrace)

-----------------------------------------------------------------------------
(* JavaScript values used by the scraper                                   *)
(*   numbers    [k |-> "num", n, d]  the rational n/d, d a power of ten    *)
(*   null       a record of the same shape with k = "null"                 *)
(*   NaN        a record of the same shape with k = "nan"                  *)

RECURSIVE Reduce10(_, _)
Reduce10(n, d) ==
    IF d > 1 /\ n % 10 = 0 THEN Reduce10(n \div 10, d \div 10)
    ELSE [k |-> "num", n |-> n, d |-> d]

Num(n)  == [k |-> "num", n |-> n, d |-> 1]
NullNum == [k |-> "null", n |-> 0, d |-> 1]
NaN     == [k |-> "nan", n |-> 0, d |-> 1]

IsFinite(v)  == v.k = "num"            \* Number.isFinite

Digits == {"0", "1", "2", "3", "4", "5", "6", "7", "8", "9"}
\* toLowerCase of one character (the capitals A to Z)
LowerChar(c) ==
    CASE c = "A" -> "a" [] c = "B" -> "b" [] c = "C" -> "c" [] c = "D" -> "d"
      [] c = "E" -> "e" [] c = "F" -> "f" [] c = "G" -> "g" [] c = "H" -> "h"
      [] c = "I" -> "i" [] c = "J" -> "j" [] c = "K" -> "k" [] c = "L" -> "l"
      [] c = "M" -> "m" [] c = "N" -> "n" [] c = "O" -> "o" [] c = "P" -> "p"
      [] c = "Q" -> "q" [] c = "R" -> "r" [] c = "S" -> "s" [] c = "T" -> "t"
      [] c = "U" -> "u" [] c = "V" -> "v" [] c = "W" -> "w" [] c = "X" -> "x"
      [] c = "Y" -> "y" [] c = "Z" -> "z" [] OTHER -> c
\* \w of a regular expression
IsWordChar(c) ==
    \/ LowerChar(c) \in {"a", "b", "c", "d", "e", "f", "g", "h", "i", "j", "k", "l", "m",
                        "n", "o", "p", "q", "r", "s", "t", "u", "v", "w", "x", "y", "z"}
    \/ c \in Digits
    \/ c = "_"

ToLower(t) == [i \in 1..Len(t) |-> LowerChar(t[i])]

RECURSIVE Trim(_)
Trim(t) ==
    IF t = <<>> THEN t
    ELSE IF Head(t) = " " THEN Trim(Tail(t))
    ELSE IF t[Len(t)] = " " THEN Trim(SubSeq(t, 1, Len(t) - 1))
    ELSE t

RECURSIVE Without(_, _)
Without(t, c) ==                       \* t.replace(/c/g, '')
    IF t = <<>> THEN <<>>
    ELSE IF Head(t) = c THEN Without(Tail(t), c)
    ELSE <<Head(t)>> \o Without(Tail(t), c)

\* last index of the maximal run of characters of S that starts at i
RECURSIVE RunEnd(_, _, _)
RunEnd(t, i, S) ==
    IF i + 1 <= Len(t) /\ t[i + 1] \in S THEN RunEnd(t, i + 1, S) ELSE i

\* the value of a text of decimal digits
RECURSIVE DigitsValue(_)
DigitsValue(t) ==
    IF t = <<>> THEN 0
    ELSE 10 * DigitsValue(SubSeq(t, 1, Len(t) - 1))
         + (CASE t[Len(t)] = "0" -> 0 [] t[Len(t)] = "1" -> 1 [] t[Len(t)] = "2" -> 2
              [] t[Len(t)] = "3" -> 3 [] t[Len(t)] = "4" -> 4 [] t[Len(t)] = "5" -> 5
              [] t[Len(t)] = "6" -> 6 [] t[Len(t)] = "7" -> 7 [] t[Len(t)] = "8" -> 8
              [] t[Len(t)] = "9" -> 9)

RECURSIVE Pow10(_)
Pow10(e) == IF e = 0 THEN 1 ELSE 10 * Pow10(e - 1)

\* Number(t) for a text of digits and dots
NumberOf(t) ==
    LET dots == {i \in 1..Len(t) : t[i] = "."} IN
    IF t = <<>> THEN Num(0)
    ELSE IF \E i \in 1..Len(t) : t[i] \notin Digits \cup {"."} THEN NaN
    ELSE IF Cardinality(dots) > 1 THEN NaN
    ELSE IF Len(t) = 1 /\ dots # {} THEN NaN
    ELSE IF dots = {} THEN Num(DigitsValue(t))
    ELSE LET p == CHOOSE i \in dots : TRUE
         IN  Reduce10(DigitsValue(Without(t, ".")), Pow10(Len(t) - p))

\* Math.round(base * mul)
RoundTimes(base, mul) == Num((2 * base.n * mul + base.d) \div (2 * base.d))

CountChars == Digits \cup {",", "."}

\* the least index of a set of indices, 0 for the empty set
Leftmost(I) == IF I = {} THEN 0 ELSE CHOOSE i \in I : \A k \in I : i <= k

\* start of the leftmost match of /([\d,.]+)([kmb])\b/, 0 if none
SuffixMatchStart(c) ==
    Leftmost({st \in 1..Len(c) :
        /\ c[st] \in CountChars
        /\ LET e == RunEnd(c, st, CountChars)
           IN  /\ e + 1 <= Len(c)
               /\ c[e + 1] \in {"k", "m", "b"}
               /\ (e + 2 > Len(c) \/ ~IsWordChar(c[e + 2]))})

FirstIn(t, S) == Leftmost({i \in 1..Len(t) : t[i] \in S})

FiniteOrNull(n) == IF IsFinite(n) THEN n ELSE NullNum   \* isFinite(n) ? n : null

\* Number(t.slice(from - 1, to).replace(/,/g, ''))
NumberIn(t, from, to) == NumberOf(Without(SubSeq(t, from, to), ","))

suffixedAt(compact, st) ==
    LET e    == RunEnd(compact, st, CountChars)
        base == NumberIn(compact, st, e)
        suf  == compact[e + 1]
    IN  IF ~IsFinite(base) THEN NullNum
        ELSE RoundTimes(base, IF suf = "k" THEN 1000
                              ELSE IF suf = "m" THEN 1000000 ELSE 1000000000)

\* lines 61-65: the first run of digits, commas and dots of text, at m
plainAt(text, m) ==
    IF m = 0 THEN NullNum
    ELSE FiniteOrNull(NumberIn(text, m, RunEnd(text, m, CountChars)))

\* parseCountText(s); s is a nullable text
parseCountText(s) ==
    IF s.isNull \/ Trim(s.s) = <<>> THEN NullNum
    ELSE LET text    == Trim(s.s)
             compact == Without(ToLower(text), " ")
             st      == SuffixMatchStart(compact)
         IN  IF st # 0 THEN suffixedAt(compact, st)
             ELSE plainAt(text, FirstIn(text, CountChars))

CommentsWord == <<"c", "o", "m", "m", "e", "n", "t", "s">>
CommentChars == Digits \cup {","}

CommentsMatch(t) ==
    Leftmost({st \in 1..Len(t) :
        /\ t[st] \in CommentChars
        /\ LET e  == RunEnd(t, st, CommentChars)
               sp == RunEnd(t, e, {" "})
           IN  /\ sp > e
               /\ sp + Len(CommentsWord) <= Len(t)
               /\ SubSeq(ToLower(t), sp + 1, sp + Len(CommentsWord)) = CommentsWord})

\* Number.isFinite(n) && n > 0 ? n : null
PositiveOrNull(n) == IF IsFinite(n) /\ n.n > 0 THEN n ELSE NullNum

\* parseCommentsNumber(s)
parseCommentsNumber(s) ==
    IF s.isNull \/ s.s = <<>> \/ CommentsMatch(s.s) = 0 THEN NullNum
    ELSE PositiveOrNull(NumberIn(s.s, CommentsMatch(s.s),
                                 RunEnd(s.s, CommentsMatch(s.s), CommentChars)))

\* text.split(':')
RECURSIVE SplitColon(_)
SplitColon(t) ==
    IF FirstIn(t, {":"}) = 0 THEN <<t>>
    ELSE <<SubSeq(t, 1, FirstIn(t, {":"}) - 1)>>
         \o SplitColon(SubSeq(t, FirstIn(t, {":"}) + 1, Len(t)))

\* lines 355-359: the parts that are finite, as minutes and seconds
secondsOf(parts) ==
    IF Len(parts) = 2
    THEN Reduce10(parts[1].n * 60 * parts[2].d + parts[2].n * parts[1].d,
                  parts[1].d * parts[2].d)
    ELSE IF Len(parts) = 3
    THEN Reduce10(parts[1].n * 3600 * parts[2].d * parts[3].d
                  + parts[2].n * 60 * parts[1].d * parts[3].d
                  + parts[3].n * parts[1].d * parts[2].d,
                  parts[1].d * parts[2].d * parts[3].d)
    ELSE NullNum

\* parseDurationTextSeconds(text): whole seconds, or null
parseDurationTextSeconds(s) ==
    IF s.isNull \/ s.s = <<>> THEN NullNum
    ELSE LET raw == SplitColon(Trim(s.s))
         IN  secondsOf(SelectSeq([i \in 1..Len(raw) |-> NumberOf(Trim(raw[i]))], IsFinite))

-----------------------------------------------------------------------------
(* Dates.  A Date is [days, min]: days since 1970-01-01 and the minute of  *)
(* the day; the local time zone of the process is taken to be UTC.         *)

DaysFromCivil(y, m, d) ==
    LET yy  == IF m <= 2 THEN y - 1 ELSE y
        era == yy \div 400
        yoe == yy - era * 400
        mp  == IF m > 2 THEN m - 3 ELSE m + 9
        doy == (153 * mp + 2) \div 5 + d - 1
        doe == yoe * 365 + yoe \div 4 - yoe \div 100 + doy
    IN  era * 146097 + doe - 719468

CivilOfYear(era, doe, yoe) ==
    LET doy == doe - (365 * yoe + yoe \div 4 - yoe \div 100)
        mp  == (5 * doy + 2) \div 153
    IN  [y |-> yoe + era * 400 + (IF mp < 10 THEN 0 ELSE 1),
         m |-> IF mp < 10 THEN mp + 3 ELSE mp - 9,
         d |-> doy - (153 * mp + 2) \div 5 + 1]
CivilFromDays(z0) ==
    LET z   == z0 + 719468
        doe == z % 146097
    IN  CivilOfYear(z \div 146097, doe,
                    (doe - doe \div 1460 + doe \div 36524 - doe \div 146096) \div 365)

\* ECMAScript MakeDay: month0 is zero-based and may lie outside 0..11, the
\* day may lie outside the month; both carry over
MakeDay(y, month0, d) ==
    DaysFromCivil(y + month0 \div 12, (month0 % 12) + 1, 1) + d - 1

DateOf(y, m, d, min) == [days |-> DaysFromCivil(y, m, d), min |-> min]

\* nullable release dates: null, an ISO-8601 timestamp at UTC midnight, or
\* a free text (token sequence)
NullDate      == [k |-> "null", y |-> 0, m |-> 0, d |-> 0, txt |-> <<>>]
IsoDate(c)    == [k |-> "iso", y |-> c.y, m |-> c.m, d |-> c.d, txt |-> <<>>]
TextDate(t)   == [k |-> "text", y |-> 0, m |-> 0, d |-> 0, txt |-> t]

\* date texts handed to normalizeIsoDate:
\*   f = "ymd"    YYYY-MM-DD
\*   f = "stamp"  YYYY-MM-DDTHH:MM:00(+|-)off, off in minutes east of UTC
\*   f = "other"  a non-empty text that Date cannot parse
\*   f = "empty"  '' or blanks;   f = "null"  null / undefined
DateText(f, y, m, d, min, off) ==
    [f |-> f, y |-> y, m |-> m, d |-> d, min |-> min, off |-> off]
NoDateText == DateText("null", 0, 0, 0, 0, 0)

toISOString(date) ==
    LET c == CivilFromDays(date.days)
    IN  DateText("stamp", c.y, c.m, c.d, date.min, 0)

\* normalizeIsoDate(input)
normalizeIsoDate(dateInput) ==
    IF dateInput.f \in {"null", "empty", "other"} THEN NullDate
    ELSE IsoDate(CivilFromDays(
             (DaysFromCivil(dateInput.y, dateInput.m, dateInput.d) * 1440
              + (IF dateInput.f = "ymd" THEN 0 ELSE dateInput.min - dateInput.off)) \div 1440))

NumTokens == {"1", "2", "3", "14", "300000"}
NumTokenVal(t) ==                       \* parseInt(t, 10)
    CASE t = "1" -> 1 [] t = "2" -> 2 [] t = "3" -> 3 [] t = "14" -> 14
      [] t = "300000" -> 300000

LowerToken(t) ==
    CASE t = "Streamed" -> "streamed" [] t = "Premiered" -> "premiered"
      [] t = "Uploaded" -> "uploaded" [] t = "Ago" -> "ago"
      [] t = "STREAMED" -> "streamed" [] t = "UPLOADED" -> "uploaded"
      [] t = "Jan" -> "jan" [] OTHER -> t

\* .replace(/^word\s+/, '') on a token sequence
StripPrefix(toks, word) ==
    IF Len(toks) >= 2 /\ toks[1] = word THEN Tail(toks) ELSE toks

UnitOf(t) ==
    CASE t \in {"minute", "minutes"} -> "minute"
      [] t \in {"hour", "hours"}     -> "hour"
      [] t \in {"day", "days"}       -> "day"
      [] t \in {"week", "weeks"}     -> "week"
      [] t \in {"month", "months"}   -> "month"
      [] t \in {"year", "years"}     -> "year"
      [] OTHER                       -> "none"

NullDateObj == [isNull |-> TRUE, days |-> 0, min |-> 0]
DateObj(days, min) == [isNull |-> FALSE, days |-> days, min |-> min]

\* lines 504-510: the setter of the unit, on a copy of now whose calendar
\* fields are c
shiftBack(now, c, n, unit) ==
    LET total == now.days * 1440 + now.min IN
    CASE unit = "minute" -> DateObj((total - n) \div 1440, (total - n) % 1440)
      [] unit = "hour"   -> DateObj((total - 60 * n) \div 1440, (total - 60 * n) % 1440)
      [] unit = "day"    -> DateObj(now.days - n, now.min)
      [] unit = "week"   -> DateObj(now.days - 7 * n, now.min)
      [] unit = "month"  -> DateObj(MakeDay(c.y, c.m - 1 - n, c.d), now.min)
      [] unit = "year"   -> DateObj(MakeDay(c.y - n, c.m - 1, c.d), now.min)

\* TimeClip: a time value lies within 100,000,000 days of the epoch
InTimeRange(d) ==
    /\ d.days >= -100000000
    /\ d.days < 100000000 \/ (d.days = 100000000 /\ d.min = 0)

\* s matches /^(\d+)\s*(minute|hour|day|week|month|year)s?\s*ago$/
IsRelative(s) ==
    Len(s) = 3 /\ s[1] \in NumTokens /\ UnitOf(s[2]) # "none" /\ s[3] = "ago"

\* Number.isNaN(d.getTime()) ? null : d
ValidOrNull(d) == IF InTimeRange(d) THEN d ELSE NullDateObj

\* lines 500-511: s is the cleaned text
inductionOf(s, now) ==
    IF ~IsRelative(s) THEN NullDateObj
    ELSE ValidOrNull(shiftBack(now, CivilFromDays(now.days), NumTokenVal(s[1]),
                               UnitOf(s[2])))

\* backwardInductionDate(relative, now); relative is a nullable token text
backwardInductionDate(relative, now) ==
    IF relative.isNull \/ relative.s = <<>> THEN NullDateObj
    ELSE inductionOf(StripPrefix(StripPrefix(StripPrefix(
                        [i \in 1..Len(relative.s) |-> LowerToken(relative.s[i])],
                        "streamed"), "premiered"), "uploaded"), now)

-----------------------------------------------------------------------------
(* normalizeReleaseDate (src/src/services/dateNormalization.js)            *)

\* Date.parse(s) of V8 on a lower-cased token text, for the modelled texts:
\* an ISO date alone is read as UTC midnight; otherwise words that are no
\* month name are skipped while no number has been read, 'jan 1, 2020' is
\* read as month, day and year at local midnight, and a word after a number
\* makes the text unparsable.  Null stands for NaN.
MonthNames == {"jan"}
DayTokens == {"1,"}
YearTokens == {"2020"}
IsoTokens == {"2021-03-04"}
IsWordToken(x) == x \notin NumTokens \cup DayTokens \cup YearTokens \cup IsoTokens

RECURSIVE SkipWords(_)
SkipWords(s) ==
    IF s # <<>> /\ IsWordToken(s[1]) /\ s[1] \notin MonthNames
    THEN SkipWords(Tail(s)) ELSE s

legacyParse(s) ==
    IF Len(s) = 3 /\ s[1] = "jan" /\ s[2] = "1," /\ s[3] = "2020"
    THEN DateObj(MakeDay(2020, 0, 1), 0)
    ELSE NullDateObj

DateParse(s) ==
    IF s = <<"2021-03-04">> THEN DateObj(DaysFromCivil(2021, 3, 4), 0)
    ELSE legacyParse(SkipWords(s))

\* the pair { iso, ms }; ms is kept as the Date it is the time value of
NullPair == [iso |-> NoDateText, ms |-> NullDateObj]
Pair(d) == [iso |-> toISOString(d), ms |-> d]

Returns(v) == [kind |-> "return", v |-> v]
Throws(name) == [kind |-> "throw", v |-> name]

\* line 32: d.toISOString() throws a RangeError for an invalid Date
pairOrThrow(d) == IF InTimeRange(d) THEN Returns(Pair(d)) ELSE Throws("RangeError")

\* lines 13-32, s being the cleaned text
normalizeCleaned(s, now) ==
    IF ~DateParse(s).isNull THEN Returns(Pair(DateParse(s)))
    ELSE IF ~IsRelative(s) THEN Returns(NullPair)
    ELSE pairOrThrow(shiftBack(now, CivilFromDays(now.days), NumTokenVal(s[1]),
                               UnitOf(s[2])))

\* normalizeReleaseDate(raw, now); raw is a nullable token text (null: not
\* a string)
normalizeReleaseDate(raw, now) ==
    IF raw.isNull \/ raw.s = <<>> THEN Returns(NullPair)
    ELSE normalizeCleaned(StripPrefix(StripPrefix(
                              [i \in 1..Len(raw.s) |-> LowerToken(raw.s[i])],
                              "streamed"), "premiered"), now)

-----------------------------------------------------------------------------
(* Texts the modelled pages carry (sequences of characters)                *)

Txt ==
    [ views_1_2M |-> <<"1", ".", "2", "M", " ", "v", "i", "e", "w", "s">>,
      no_views |-> <<"N", "o", " ", "v", "i", "e", "w", "s">>,
      t_10_05 |-> <<"1", "0", ":", "0", "5">>,
      n_12345 |-> <<"1", "2", "3", "4", "5">>,
      n_0 |-> <<"0">>,
      likes_1_2K |-> <<"1", ".", "2", "K", " ", "l", "i", "k", "e", "s">>,
      n_1_243 |-> <<"1", ",", "2", "4", "3">>,
      n_1_2K |-> <<"1", ".", "2", "K">>,
      like |-> <<"L", "i", "k", "e">>,
      comments_15 |-> <<"1", "5", " ", "C", "o", "m", "m", "e", "n", "t", "s">>,
      comments_0 |-> <<"0", " ", "C", "o", "m", "m", "e", "n", "t", "s">>,
      comments |-> <<"C", "o", "m", "m", "e", "n", "t", "s">>,
      n_7 |-> <<"7">>,
      n_3 |-> <<"3">>,
      n_5 |-> <<"5">> ]

\* nullable plain strings (titles, descriptions, transcripts)
SNull   == [k |-> "null", v |-> ""]
SStr(x) == [k |-> "str", v |-> x]

-----------------------------------------------------------------------------
(* Tree scans of the watch page                                            *)

RECURSIVE Reverse(_)
Reverse(q) == IF q = <<>> THEN <<>> ELSE Reverse(Tail(q)) \o <<Head(q)>>

RECURSIVE Join(_)
Join(parts) ==                          \* parts.join(' ')
    IF parts = <<>> THEN <<>>
    ELSE IF Len(parts) = 1 THEN parts[1]
    ELSE parts[1] \o <<" ">> \o Join(Tail(parts))

Includes(t, pat) == IndexOf(t, pat, 1) # 0

\* an "initial data" document: the strings of its engagement panels, of its
\* item sections and of the rest, and the values stored under /like/i keys
InitialData(panels, sections, rest, likeKeys) ==
    [panels |-> panels, sections |-> sections, rest |-> rest, likeKeys |-> likeKeys]
EmptyData == InitialData(<<>>, <<>>, <<>>, <<>>)

RECURSIVE Flatten(_)
Flatten(qq) == IF qq = <<>> THEN <<>> ELSE Head(qq) \o Flatten(Tail(qq))

\* collectStrings(node, out): pre-order, document order
collectStrings(data) == Flatten(data.panels) \o Flatten(data.sections) \o data.rest

\* collectAllStrings(obj): explicit stack, so children come out last first
collectAllStrings(data) == Reverse(collectStrings(data))

CommentWord == <<"c", "o", "m", "m", "e", "n", "t">>

NonEmpty(t) == t # <<>>                  \* Boolean(t) on a string

\* .map((s) => String(s).trim()).filter(Boolean)
TokensOf(strings) == SelectSeq([i \in 1..Len(strings) |-> Trim(strings[i])], NonEmpty)

\* Number(token.replace(/,/g, ''))
TokenNumber(t) == NumberOf(Without(t, ","))

\* /comment/i.test of the token before or after token i
NearComment(tokens, i) ==
    \/ i > 1 /\ Includes(ToLower(tokens[i - 1]), CommentWord)
    \/ i < Len(tokens) /\ Includes(ToLower(tokens[i + 1]), CommentWord)

\* the for loop of fromTokenNeighbors: the first positive number that has
\* a token containing 'comment' next to it
NeighborOf(tokens) ==
    LET at == Leftmost({i \in 1..Len(tokens) :
                  /\ PositiveOrNull(TokenNumber(tokens[i])).k # "null"
                  /\ NearComment(tokens, i)})
    IN  IF at = 0 THEN NullNum ELSE TokenNumber(tokens[at])

\* fromTokenNeighbors(strings) of extractCommentCount
fromTokenNeighbors(strings) == NeighborOf(TokensOf(strings))

NoCount == [count |-> NullNum, source |-> "none"]

OrElse(n, other) == IF n.k # "null" THEN n ELSE other

\* one subtree of strategy A or B: the joined text, then the neighbours
CountInParts(txtParts) ==
    OrElse(parseCommentsNumber(Str(Join(txtParts))), fromTokenNeighbors(txtParts))

Counted(n, source) ==
    IF n.k # "null" THEN [count |-> n, source |-> source] ELSE NoCount

Else(found, other) == IF found.count.k # "null" THEN found ELSE other

\* strategies A and B: the first subtree that gives a count; the strings
\* of a subtree are read as stringifyAllText lists them, last first
RECURSIVE FirstCount(_, _)
FirstCount(subtrees, source) ==
    IF subtrees = <<>> THEN NoCount
    ELSE Else(Counted(CountInParts(Reverse(Head(subtrees))), source),
              FirstCount(Tail(subtrees), source))

\* the first string that parseCommentsNumber accepts
RECURSIVE FirstCommentsNumber(_)
FirstCommentsNumber(strings) ==
    IF strings = <<>> THEN NullNum
    ELSE OrElse(parseCommentsNumber(Str(Head(strings))),
                FirstCommentsNumber(Tail(strings)))

\* the element of a singleton set; The({ F(x) : x \in {e} }) is F(e) with e
\* evaluated once
The(S) == CHOOSE x \in S : TRUE

\* extractCommentCount(ytInitialData); hasData is false for null
extractCommentCount(hasData, data) ==
    IF ~hasData THEN NoCount
    ELSE Else(FirstCount(Reverse(data.panels), "engagementPanels"),
         Else(FirstCount(Reverse(data.sections), "itemSectionRenderer"),
         Else(Counted(FirstCommentsNumber(collectAllStrings(data)), "recursive"),
              Counted(fromTokenNeighbors(collectAllStrings(data)), "recursive"))))

\* /views?/i.test(s) && /[\d,.]/.test(s)
IsViewLabel(t) ==
    /\ Includes(ToLower(t), <<"v", "i", "e", "w">>)
    /\ \E i \in 1..Len(t) : t[i] \in CountChars

\* allStrings.find(...) of the view-count fallback; null when none
FindViewLabel(strings) ==
    IF \E i \in 1..Len(strings) : IsViewLabel(strings[i])
    THEN Str(strings[CHOOSE i \in 1..Len(strings) :
                        IsViewLabel(strings[i]) /\ \A j \in 1..(i - 1) : ~IsViewLabel(strings[j])])
    ELSE NullStr

\* /\blikes?\b/i.test(s)
HasLikeWord(t) ==
    LET low == ToLower(t)
        L == <<"l", "i", "k", "e">>
    IN  \E i \in 1..Len(low) :
            /\ i + 3 <= Len(low) /\ SubSeq(low, i, i + 3) = L
            /\ (i = 1 \/ ~IsWordChar(low[i - 1]))
            /\ \/ i + 4 > Len(low) \/ ~IsWordChar(low[i + 4])
               \/ low[i + 4] = "s" /\ (i + 5 > Len(low) \/ ~IsWordChar(low[i + 5]))

\* the larger of two numbers n/d
Larger(a, b) == IF a.n * b.d <= b.n * a.d THEN b ELSE a

\* mutant: the first value
firstOf(vals) == vals[1]

\* Math.max(...values) of a non-empty list of finite numbers
RECURSIVE MaxNum(_)
MaxNum(vals) ==
    IF Len(vals) = 1 THEN vals[1] ELSE Larger(vals[1], MaxNum(Tail(vals)))

\* Number.isFinite(n) && n >= 0
IsCount(n) == IsFinite(n) /\ n.n >= 0

\* .map(parseCountText).filter((n) => Number.isFinite(n) && n >= 0)
ParsedCounts(cands) ==
    SelectSeq([i \in 1..Len(cands) |-> parseCountText(Str(cands[i]))], IsCount)

\* the like count of fetchVideoDetails: the largest parsed candidate
likeCountOf(hasData, data) ==
    IF ~hasData THEN NullNum
    ELSE LET vals == ParsedCounts(SelectSeq(collectStrings(data), HasLikeWord)
                                  \o data.likeKeys)
         IN  IF vals = <<>> THEN NullNum ELSE MaxNum(vals)

-----------------------------------------------------------------------------
(* The channel listing                                                     *)

\* A node of the parsed ytInitialData: a value that is no object (k =
\* "leaf"; truthy tells null, 0 and '' from the rest), an array or an
\* object.  kids lists the elements of an array, or the properties of an
\* object that hold arrays, objects or the marker key, in document order,
\* each as [key, val].  The other fields are what the map callback reads of
\* an object; text nodes are nullable (missing node = null).
Node(k, truthy, kids) ==
    [k |-> k, truthy |-> truthy, kids |-> kids, videoId |-> "", title |-> "",
     publishedTimeText |-> NullStr, lengthText |-> NullStr, viewCountText |-> NullStr]
Field(key, val) == [key |-> key, val |-> val]
NullLeaf == Node("leaf", FALSE, <<>>)
Obj(fields) == Node("obj", TRUE, fields)
Arr(items) == Node("arr", TRUE, [i \in 1..Len(items) |-> Field("", items[i])])

\* a videoRenderer object
Renderer(id, title, published, length, views) ==
    [k |-> "obj", truthy |-> TRUE, kids |-> <<>>, videoId |-> id, title |-> title,
     publishedTimeText |-> published, lengthText |-> length, viewCountText |-> views]

\* the content of a tab that lists the renderers rs: each is
\* contents[i].richItemRenderer.content.videoRenderer of a grid
Grid(rs) ==
    Obj(<<Field("contents",
                Arr([i \in 1..Len(rs) |->
                       Obj(<<Field("richItemRenderer",
                                   Obj(<<Field("content",
                                               Obj(<<Field("videoRenderer", rs[i])>>))>>))>>)]))>>)

RendererPool ==
    { Renderer("a", "T1", Str(<<"3", "years", "ago">>), Str(Txt.t_10_05), Str(Txt.views_1_2M)),
      Renderer("b", "T2", NullStr, NullStr, NullStr),
      Renderer("", "T3", Str(<<"2", "days", "ago">>), NullStr, Str(Txt.n_12345)),
      Renderer("c", "", Str(<<"Streamed", "1", "month", "ago">>), NullStr, Str(Txt.no_views)) }

\* getText(node) for a text node
getText(node) == IF node.isNull THEN <<>> ELSE node.s
OrNull(t) == IF t = <<>> THEN NullStr ELSE Str(t)      \* t || null

\* the object built by the map callback of scrapeYouTubeChannelData
StubOf(vr) ==
    [videoId |-> vr.videoId,
     title |-> vr.title,
     relativePublished |-> OrNull(getText(vr.publishedTimeText)),
     durationText |-> OrNull(getText(vr.lengthText)),
     viewCount |-> parseCountText(Str(getText(vr.viewCountText)))]

Tab(title, selected, content) ==
    [title |-> title, selected |-> selected, content |-> content]
NoTab == [isNull |-> TRUE, tab |-> Tab("", FALSE, NullLeaf)]

\* tabs.find(...) given the index it stops at, 0 when it finds none
TabAt(tabs, i) == IF i = 0 THEN NoTab ELSE [isNull |-> FALSE, tab |-> tabs[i]]

OrTab(a, b) == IF ~a.isNull THEN a ELSE b                    \* a || b on tabs

\* mutant: the selected tab is preferred to a tab named after videos
selectedFirst(tabs) ==
    OrTab(TabAt(tabs, Leftmost({i \in 1..Len(tabs) : tabs[i].selected})),
    OrTab(TabAt(tabs, Leftmost({i \in 1..Len(tabs) : tabs[i].title \in {"Videos", "videos"}})),
    OrTab(TabAt(tabs, Leftmost({i \in 1..Len(tabs) :
                          tabs[i].title \in {"Videos", "videos", "Video uploads"}})),
          TabAt(tabs, IF tabs # <<>> THEN 1 ELSE 0))))

\* lines 341-347: by exact title, by title, the selected tab, the first tab;
\* of the modelled titles, "Videos" and "videos" are 'videos' once
\* lower-cased, and these and "Video uploads" include 'video'
pickAmong(tabs) ==
    OrTab(TabAt(tabs, Leftmost({i \in 1..Len(tabs) : tabs[i].title \in {"Videos", "videos"}})),
    OrTab(TabAt(tabs, Leftmost({i \in 1..Len(tabs) :
                          tabs[i].title \in {"Videos", "videos", "Video uploads"}})),
    OrTab(TabAt(tabs, Leftmost({i \in 1..Len(tabs) : tabs[i].selected})),
          TabAt(tabs, IF tabs # <<>> THEN 1 ELSE 0))))

\* pickVideosTab(ytInitialData); data.tabs is a nullable list
pickVideosTab(data) == IF data.tabs.isNull THEN NoTab ELSE pickAmong(data.tabs.s)

\* Object.values(node): the properties whose key is an integer index come
\* first (the modelled keys hold one such key, "1"), the others follow in
\* the order of the document
IsIndexKey(f) == f.key = "1"
IsNameKey(f) == f.key # "1"
ObjectValues(kids) == SelectSeq(kids, IsIndexKey) \o SelectSeq(kids, IsNameKey)

\* if (node.videoRenderer) acc.push(node.videoRenderer)
ownRenderer(node) ==
    LET I == {i \in 1..Len(node.kids) :
                 node.kids[i].key = "videoRenderer" /\ node.kids[i].val.truthy}
    IN  IF I = {} THEN <<>> ELSE <<node.kids[CHOOSE i \in I : TRUE].val>>

\* mutant: an object's own entry is pushed after those of its values
RECURSIVE collectLate(_)
RECURSIVE collectLateEach(_)
collectLate(node) ==
    IF node.k = "leaf" THEN <<>>
    ELSE IF node.k = "arr" THEN collectLateEach(node.kids)
    ELSE collectLateEach(ObjectValues(node.kids)) \o ownRenderer(node)
collectLateEach(kids) ==
    IF kids = <<>> THEN <<>>
    ELSE collectLate(kids[1].val) \o collectLateEach(Tail(kids))

\* collectVideoRenderers(node, acc): what the call appends to acc
RECURSIVE collectVideoRenderers(_)
RECURSIVE collectEach(_)
collectVideoRenderers(node) ==
    IF node.k = "leaf" THEN <<>>
    ELSE IF node.k = "arr" THEN collectEach(node.kids)
    ELSE ownRenderer(node) \o collectEach(ObjectValues(node.kids))
\* the for loops of lines 330 and 335
collectEach(kids) ==
    IF kids = <<>> THEN <<>>
    ELSE collectVideoRenderers(kids[1].val) \o collectEach(Tail(kids))

\* a listing page: is the ytInitialData blob there, does it parse, its tabs
ListingPage(blob, tabs) == [blob |-> blob, tabs |-> tabs]
ListingPagesIn(m) ==
    { ListingPage("none", NullStr), ListingPage("badjson", NullStr),
      ListingPage("ok", NullStr), ListingPage("ok", Str(<<>>)) }
    \cup { ListingPage("ok", Str(<<Tab("Home", TRUE, Arr(<<>>)), Tab("Videos", FALSE, Grid(rs))>>)) :
             rs \in SeqsUpTo(RendererPool, IF m = "scrape" THEN MaxListing ELSE 1) }

\* A channel URL is a nullable text (null: not a string) made of segments,
\* each a run of characters written as one string.  The segments of
\* HandleSegs hold none of the characters / ? & # that end a handle; the
\* literal youtube.com/ of the first pattern is a segment of its own.
HandleSegs == {"@", "veritasium", " ", "videos", "UC1"}

\* the channelUrl arguments of the modelled calls
ChannelUrlsIn(m) ==
    { Str(<<"https://www.", "youtube.com/", "@", "veritasium">>),
      Str(<<"https://www.", "youtube.com/", "channel/", "UC1">>) }
    \cup (IF m = "detail"
          THEN { Str(<<"@", "veritasium">>), Str(<<>>), NullStr,
                 Str(<<" ", "https://www.", "YouTube.com/", "@", "veritasium", "/", "videos">>),
                 Str(<<"http://evil.example/?u=", "youtube.com/", "@", "veritasium">>) }
          ELSE {})

\* u.match(/youtube\.com\/@([^/?&#]+)/i): the index of the segment
\* youtube.com/ of the leftmost match, 0 if none
HandleMatch(u) ==
    Leftmost({i \in 1..(Len(u) - 2) :
        /\ u[i] \in {"youtube.com/", "YouTube.com/"}
        /\ u[i + 1] = "@"
        /\ u[i + 2] \in HandleSegs})

\* u.match(/^@([^/?&#]+)$/)
IsRawHandle(u) ==
    /\ Len(u) >= 2
    /\ u[1] = "@"
    /\ \A i \in 2..Len(u) : u[i] \in HandleSegs

\* lines 5-10, on the trimmed text u: the handle, <<>> standing for null
handleOf(u) ==
    IF HandleMatch(u) # 0
    THEN SubSeq(u, HandleMatch(u) + 2, RunEnd(u, HandleMatch(u) + 2, HandleSegs))
    ELSE IF IsRawHandle(u) THEN SubSeq(u, 2, Len(u))
    ELSE <<>>

\* extractHandle(channelUrl): the handle, <<>> standing for null
extractHandle(url) ==
    IF url.isNull \/ url.s = <<>> THEN <<>> ELSE handleOf(Trim(url.s))

MaxVideosCap == 100
MinVideos == 1
DefaultMaxVideos == 10

\* raw maxVideos values: a number, a string of digits, a non-numeric string,
\* undefined, or NaN
RawNum(n)    == [k |-> "num", n |-> n]
RawNumStr(n) == [k |-> "numstr", n |-> n]
RawText      == [k |-> "text", n |-> 0]
RawMissing   == [k |-> "missing", n |-> 0]
RawNaN       == [k |-> "nan", n |-> 0]

\* the maxVideos arguments of the modelled calls
RawMaxValuesIn(m) ==
    {RawNum(n) : n \in 1..MaxRequested} \cup {RawText, RawMissing}
    \cup (IF m = "detail"
          THEN {RawNum(MinVideos - 1), RawNum(MinVideos - 2), RawNum(MaxVideosCap + 1)}
          ELSE {})

Min(a, b) == IF a <= b THEN a ELSE b
Max(a, b) == IF a >= b THEN a ELSE b

\* mutant: NaN is not taken for a missing value (?? in place of ||)
clampNaNKept(raw) ==
    IF raw.k \in {"text", "nan"} THEN NaN
    ELSE Num(Min(MaxVideosCap,
                 Max(MinVideos,
                     IF raw.k = "missing" \/ (raw.k = "num" /\ raw.n = 0)
                     THEN DefaultMaxVideos ELSE raw.n)))

\* Math.min(100, Math.max(1, parseInt(rawMaxVideos || '10', 10)))
\* (undefined, 0 and NaN are falsy; a string of digits is not, even "0")
clampMaxVideos(raw) ==
    IF raw.k = "text" THEN NaN
    ELSE Num(Min(MaxVideosCap,
                 Max(MinVideos,
                     IF raw.k \in {"missing", "nan"} \/ (raw.k = "num" /\ raw.n = 0)
                     THEN DefaultMaxVideos ELSE raw.n)))

\* renderers.slice(0, maxVideos)
Slice(q, maxVideos) ==
    IF maxVideos.k # "num" THEN <<>>
    ELSE SubSeq(q, 1, IF maxVideos.n < 0 THEN Max(0, Len(q) + maxVideos.n)
                      ELSE Min(Len(q), maxVideos.n))

\* renderers.slice(0, maxVideos).map(...).filter((v) => v.videoId)
StubsOf(cut) == [i \in 1..Len(cut) |-> StubOf(cut[i])]
HasVideoId(v) == v.videoId # ""
selectTop(renderers, maxVideos) ==
    SelectSeq(StubsOf(Slice(renderers, maxVideos)), HasVideoId)

-----------------------------------------------------------------------------
(* The watch page and fetchVideoDetails                                    *)

Track(lang, baseUrl) == [languageCode |-> lang, baseUrl |-> baseUrl]
IsEnglish(lang) == lang \in {"en", "en-US", "EN"}   \* lower-cased starts with 'en'

\* a watch page, by what fetchVideoDetails reads from it; shortDescription
\* is details.shortDescription || getText(micro.description), htmlText the
\* raw html as parseCommentsNumber sees it, snippet the html from
\* "commentsEntryPointHeaderRenderer" on (null when that key is absent)
WatchPage(player, initial, data, viewCountRaw, lengthSeconds, publishRaw, captionTracks, hasCfg, shortDescription, htmlText, snippet) ==
    [player |-> player, initial |-> initial, data |-> data,
     viewCountRaw |-> viewCountRaw, lengthSeconds |-> lengthSeconds,
     publishRaw |-> publishRaw, captionTracks |-> captionTracks,
     hasCfg |-> hasCfg, shortDescription |-> shortDescription,
     htmlText |-> htmlText, snippet |-> snippet]

Pages ==
    [ full |->
          WatchPage("ok", "ok", InitialData(<< <<Txt.comments_15>> >>, <<>>,
          <<Txt.likes_1_2K>>, <<Txt.n_1_2K, Txt.n_1_243>>), Str(Txt.n_12345), Num(605),
          DateText("ymd", 2021, 3, 4, 0, 0), <<Track("de", "cap0"),
          Track("en-US", "cap1")>>, TRUE, "desc", Str(Txt.comments_15), NullStr),
      bare |->
          WatchPage("ok", "none", EmptyData, NullStr, NaN, NoDateText,
          <<Track("en", "cap1")>>, TRUE, "", NullStr, NullStr),
      noPlayer |->
          WatchPage("none", "ok", InitialData(<<>>, <<>>, <<>>, <<Txt.like>>), NullStr, NaN, NoDateText, <<>>,
          FALSE, "", NullStr, NullStr),
      badInitial |->
          WatchPage("ok", "badjson", EmptyData, Str(Txt.n_12345), Num(605),
          DateText("ymd", 2021, 3, 4, 0, 0), <<>>, FALSE, "desc", NullStr,
          NullStr),
      zero |->
          WatchPage("ok", "ok", InitialData(<<>>, <<>>, <<Txt.comments_0,
          Txt.views_1_2M>>, <<Txt.n_0>>), NullStr, Num(0), 
          DateText("other", 0, 0, 0, 0, 0), <<>>, TRUE, "desc", Str(Txt.comments_0),
          Str(Txt.comments_0)),
      sect |->
          WatchPage("ok", "ok", InitialData(<< <<Txt.comments>> >>,
          << <<Txt.comments_15>> >>, <<Txt.n_7, Txt.comments>>, <<>>),
          Str(Txt.n_12345), Num(605), DateText("ymd", 2021, 3, 4, 0, 0), <<>>,
          TRUE, "desc", Str(Txt.comments_0), NullStr),
      docOnly |->
          WatchPage("ok", "ok", InitialData(<<>>, <<>>, <<Txt.n_7, Txt.comments>>,
          <<>>), Str(Txt.n_12345), Num(605), DateText("ymd", 2021, 3, 4, 0, 0),
          <<>>, TRUE, "desc", Str(Txt.comments_15), NullStr),
      htmlOnly |->
          WatchPage("ok", "ok", EmptyData, Str(Txt.n_12345), Num(605),
          DateText("ymd", 2021, 3, 4, 0, 0), <<>>, TRUE, "desc",
          Str(Txt.comments_15), NullStr),
      threeInPanel |->
          WatchPage("ok", "ok", InitialData(<< <<Txt.n_3, Txt.comments, Txt.n_5>> >>,
          << <<Txt.n_1_243, Txt.comments, Txt.n_7>> >>, <<>>, <<>>),
          Str(Txt.n_12345), Num(605), DateText("ymd", 2021, 3, 4, 0, 0), <<>>,
          TRUE, "desc", NullStr, NullStr),
      threeInSection |->
          WatchPage("ok", "ok", InitialData(<<>>,
          << <<Txt.n_1_243, Txt.comments, Txt.n_7>> >>, <<>>, <<>>),
          Str(Txt.n_12345), Num(605), DateText("ymd", 2021, 3, 4, 0, 0), <<>>,
          TRUE, "desc", NullStr, NullStr) ]

\* mode "detail" follows one video through every page of the pool; mode
\* "scrape" follows several videos through two of them
WatchPagesIn(m) ==
    {Pages.full, Pages.zero}
    \cup (IF m = "detail"
          THEN {Pages.bare, Pages.noPlayer, Pages.badInitial, Pages.sect, Pages.docOnly,
                Pages.htmlOnly, Pages.threeInPanel, Pages.threeInSection}
          ELSE {})

\* the body of the secondary player call, null when the call failed
PlayerData(tracks, shortDescription) ==
    [isNull |-> FALSE, tracks |-> tracks, shortDescription |-> shortDescription]
NoPlayerData == [isNull |-> TRUE, tracks |-> NullStr, shortDescription |-> ""]

\* what a caption fetch yields after extractTranscriptFromXml: a text, or
\* null (the request failed, or the document held no text)
CaptionResponses == {SNull, SStr("words")}

PlayerResponsesIn(m) ==
    {NoPlayerData, PlayerData(Str(<<Track("en", "cap2")>>), "")}
    \cup (IF m = "detail"
          THEN {PlayerData(NullStr, "desc2"), PlayerData(Str(<<>>), "")} ELSE {})

\* bodies of the secondary next call (null when the call failed)
NextResponses ==
    { [isNull |-> TRUE, data |-> EmptyData],
      [isNull |-> FALSE, data |-> EmptyData],
      [isNull |-> FALSE, data |-> InitialData(<<>>, <<>>, <<Txt.n_7, Txt.comments>>, <<>>)] }

Detail(description, transcript, duration, viewCount, likeCount, commentCount, commentCountSource, releaseDate) ==
    [description |-> description, transcript |-> transcript, duration |-> duration,
     viewCount |-> viewCount, likeCount |-> likeCount, commentCount |-> commentCount,
     commentCountSource |-> commentCountSource, releaseDate |-> releaseDate]

\* the state of one fetchVideoDetails call
\*   st: notStarted, awaitWatch, awaitCaption1, awaitNext, awaitPlayer,
\*       awaitCaption2, done (returned), threw
NotStarted(i, videoId) ==
    [i |-> i, videoId |-> videoId, st |-> "notStarted",
     page |-> WatchPage("none", "none", EmptyData, NullStr, NaN, NoDateText, <<>>,
                        FALSE, "", NullStr, NullStr),
     tracks |-> <<>>, transcript |-> SNull, comment |-> NoCount,
     description |-> "",
     result |-> Detail("", SNull, NullNum, NullNum, NullNum, NullNum, "none", NullDate)]

InProgress == {"awaitWatch", "awaitCaption1", "awaitNext", "awaitPlayer", "awaitCaption2"}
Finished == {"done", "threw"}

Req(i, kind, url) == [stub |-> i, kind |-> kind, url |-> url]
Go(d, reqs) == [d |-> d, reqs |-> reqs]

Blank(text) == text \in {"", " "}       \* !description || !description.trim()

hasInitial(page) == page.initial = "ok"

\* the view count of fetchVideoDetails, before the final isFinite test
viewCountOf(page) ==
    The({ IF ~IsFinite(fromPlayer) /\ hasInitial(page)
          THEN parseCountText(FindViewLabel(collectStrings(page.data)))
          ELSE fromPlayer :
          fromPlayer \in {parseCountText(page.viewCountRaw)} })

\* a || b on numbers
OrNum(a, b) == The({ IF x.k = "num" /\ x.n # 0 THEN x ELSE b : x \in {a} })

\* mutant: the raw html is searched before the initial data
htmlFirst(page) ==
    Else(Counted(OrNum(parseCommentsNumber(page.htmlText),
                       parseCommentsNumber(page.snippet)), "html"),
         extractCommentCount(hasInitial(page), page.data))

\* comment count from the page itself: initial data, then the raw html
localComment(page) ==
    Else(extractCommentCount(hasInitial(page), page.data),
         Counted(OrNum(parseCommentsNumber(page.htmlText),
                       parseCommentsNumber(page.snippet)), "html"))

\* the object fetchVideoDetails returns
finishDetails(d) ==
    Go([d EXCEPT !.st = "done",
          !.result = Detail(d.description,
                            d.transcript,
                            IF IsFinite(d.page.lengthSeconds) /\ d.page.lengthSeconds.n > 0
                                THEN d.page.lengthSeconds ELSE NullNum,
                            FiniteOrNull(viewCountOf(d.page)),
                            FiniteOrNull(likeCountOf(hasInitial(d.page), d.page.data)),
                            FiniteOrNull(d.comment.count),
                            d.comment.source,
                            normalizeIsoDate(d.page.publishRaw))],
       <<>>)

\* baseUrl of the preferred track, '' when fetchTranscriptFromTracks
\* returns null without a request
preferredUrl(tracks) ==
    IF tracks = <<>> THEN ""
    ELSE IF \E i \in 1..Len(tracks) : IsEnglish(tracks[i].languageCode)
    THEN tracks[CHOOSE i \in 1..Len(tracks) :
                   /\ IsEnglish(tracks[i].languageCode)
                   /\ \A j \in 1..(i - 1) : ~IsEnglish(tracks[j].languageCode)].baseUrl
    ELSE tracks[1].baseUrl

\* playerViaInnertube?.captions?...captionTracks || captionTracks
retryTracks(pl, captionTracks) ==
    IF pl.isNull \/ pl.tracks.isNull THEN captionTracks ELSE pl.tracks.s

\* The synchronous stretches of fetchVideoDetails.  Each takes the call from
\* one await to the next: it leaves st at the await it stops at, or at the
\* label of the stretch that follows at once (toCounts, toDescription,
\* toRetry, toFinish), or at done / threw.

\* lines 386-417: the blobs, then fetchTranscriptFromTracks
afterWatch(d, page) ==
    IF page.player = "none" THEN Go([d EXCEPT !.st = "threw", !.page = page], <<>>)
    ELSE IF page.player = "badjson" \/ page.initial = "badjson"
    THEN Go([d EXCEPT !.st = "threw", !.page = page], <<>>)
    ELSE LET d1  == [d EXCEPT !.page = page, !.tracks = page.captionTracks]
             url == preferredUrl(d1.tracks)
         IN  IF url = "" THEN Go([d1 EXCEPT !.st = "toCounts"], <<>>)
             ELSE Go([d1 EXCEPT !.st = "awaitCaption1"], <<Req(d.i, "caption", url)>>)

\* lines 419-463: counts from the page, then fetchCommentCountViaInnertube
countsStep(d) ==
    The({ IF c.count.k = "null" /\ d.page.hasCfg
          THEN Go([d EXCEPT !.comment = c, !.st = "awaitNext"],
                  <<Req(d.i, "next", d.videoId)>>)
          ELSE Go([d EXCEPT !.comment = c, !.st = "toDescription"], <<>>) :
          c \in {localComment(d.page)} })

\* fetchCommentCountViaInnertube on the body of the next call
commentViaNext(resp) ==
    IF resp.isNull THEN NoCount
    ELSE Else(Counted(extractCommentCount(TRUE, resp.data).count, "youtubei"),
              Counted(FirstCommentsNumber(collectAllStrings(resp.data)), "youtubei"))

\* line 462: if (viaNext.count !== null) comment = viaNext
afterNext(d, resp) ==
    Go([d EXCEPT !.st = "toDescription", !.comment = Else(commentViaNext(resp), d.comment)],
       <<>>)

\* lines 465-467: the description, then fetchPlayerDataViaInnertube
descriptionStep(d) ==
    LET d1 == [d EXCEPT !.description = d.page.shortDescription] IN
    IF Blank(d1.description) \/ d.transcript.k = "null"
    THEN IF d.page.hasCfg
         THEN Go([d1 EXCEPT !.st = "awaitPlayer"], <<Req(d.i, "player", d.videoId)>>)
         ELSE Go([d1 EXCEPT !.st = "toRetry"], <<>>)
    ELSE Go([d1 EXCEPT !.st = "toFinish"], <<>>)

\* lines 468-475: the player data, then fetchTranscriptFromTracks again
retryStep(d, pl) ==
    LET desc == IF Blank(d.description) /\ ~pl.isNull /\ pl.shortDescription # ""
                THEN pl.shortDescription ELSE d.description
        d1   == [d EXCEPT !.description = desc]
    IN  IF d.transcript.k = "null"
        THEN LET tracks == retryTracks(pl, d.tracks)
                 url    == preferredUrl(tracks)
                 d2     == [d1 EXCEPT !.tracks = tracks]
             IN  IF url = "" THEN Go([d2 EXCEPT !.st = "toFinish"], <<>>)
                 ELSE Go([d2 EXCEPT !.st = "awaitCaption2"], <<Req(d.i, "caption", url)>>)
        ELSE Go([d1 EXCEPT !.st = "toFinish"], <<>>)

Then(r, nxt) == Go(nxt.d, r.reqs \o nxt.reqs)

\* run the call on until it awaits or settles; the stretches follow one
\* another in the order of the code (each operator maps a set of call
\* states, here always a singleton)
RunCounts(R) ==
    {IF r.d.st = "toCounts" THEN Then(r, countsStep(r.d)) ELSE r : r \in R}
RunDescription(R) ==
    {IF r.d.st = "toDescription" THEN Then(r, descriptionStep(r.d)) ELSE r : r \in R}
RunRetry(R) ==
    {IF r.d.st = "toRetry" THEN Then(r, retryStep(r.d, NoPlayerData)) ELSE r : r \in R}
RunFinish(R) ==
    {IF r.d.st = "toFinish" THEN Then(r, finishDetails(r.d)) ELSE r : r \in R}
Run(r0) == RunFinish(RunRetry(RunDescription(RunCounts({r0}))))

-----------------------------------------------------------------------------
(* scrapeYouTubeChannelData                                                *)

\* the record pushed into videos
Record(videoId, title, description, transcript, duration, releaseDate, viewCount, likeCount, commentCount) ==
    [videoId |-> videoId, title |-> title, description |-> description,
     transcript |-> transcript, duration |-> duration, releaseDate |-> releaseDate,
     viewCount |-> viewCount, likeCount |-> likeCount, commentCount |-> commentCount]

Coalesce(a, b) == IF a.k = "null" THEN b ELSE a          \* a ?? b

\* induced ? normalizeIsoDate(induced.toISOString()) : null
isoOfInduced(induced) ==
    IF induced.isNull THEN NullDate ELSE normalizeIsoDate(toISOString(induced))

\* mutant: the relative phrase itself is stored
inducedIsoRaw(relative, now) ==
    IF relative.isNull \/ relative.s = <<>> THEN NullDate ELSE TextDate(relative.s)

\* the release date induced from the listing's relative phrase
inducedIsoOf(relative, now) == isoOfInduced(backwardInductionDate(relative, now))

\* detail.releaseDate || inducedIso
finalIsoOf(detailDate, inducedIso) ==
    IF detailDate.k # "null" THEN detailDate ELSE inducedIso

\* Number.isFinite(n) ? n : 0
FiniteOrZero(n) == IF IsFinite(n) THEN n ELSE Num(0)

\* the try branch: stub merged with the detail
mergedRecord(v, detail, now) ==
    Record(v.videoId, v.title,
           SStr(detail.description),
           IF detail.transcript.k = "null" \/ detail.transcript.v = ""
               THEN SNull ELSE detail.transcript,
           FiniteOrZero(Coalesce(detail.duration, parseDurationTextSeconds(v.durationText))),
           finalIsoOf(detail.releaseDate,
                      IF detail.releaseDate.k = "null"
                      THEN inducedIsoOf(v.relativePublished, now) ELSE NullDate),
           Coalesce(Coalesce(detail.viewCount, v.viewCount), Num(0)),
           detail.likeCount,
           detail.commentCount)

\* mutant: the catch branch leaves the release date out
fallbackUndated(v, now) ==
    Record(v.videoId, v.title, SStr(""), SNull,
           FiniteOrZero(parseDurationTextSeconds(v.durationText)),
           NullDate, Coalesce(v.viewCount, Num(0)), NullNum, NullNum)

\* the catch branch: the stub alone
fallbackRecord(v, now) ==
    Record(v.videoId, v.title,
           SStr(""),
           SNull,
           FiniteOrZero(parseDurationTextSeconds(v.durationText)),
           inducedIsoOf(v.relativePublished, now),
           Coalesce(v.viewCount, Num(0)),
           NullNum,
           NullNum)

recordFor(v, d, now) ==
    IF d.st = "threw" THEN fallbackRecord(v, now) ELSE mergedRecord(v, d.result, now)

\* the instants `new Date()` may give while a record is built
NowPoolIn(m) ==
    {DateOf(2024, 2, 29, 600)} \cup (IF m = "detail" THEN {DateOf(2024, 3, 31, 5)} ELSE {})

\* mutant: every remaining fetch is started at once (Promise.all)
loopStartsAll(i, n) == i..n

\* the stubs whose detail fetch begins when the for loop reaches index i of n
loopStarts(i, n) == IF i <= n THEN {i} ELSE {}

\* line 516
InvalidUrlMessage ==
    "Invalid YouTube channel URL. Use format: https://www.youtube.com/@handle"

\* no request body or helper input, and no response or helper result yet
NoArg == [f |-> "none"]

\* session ids: null, the unsaved 'new' chat, or the id of a saved session
NoSession == [k |-> "null", n |-> 0]
NewSession == [k |-> "new", n |-> 0]
SessionId(n) == [k |-> "id", n |-> n]

\* no Chat component is mounted, the user store is not in use and no tool
\* loop runs
ChatOff ==
    /\ component = "none"
    /\ codeKeywords = FALSE
    /\ activeSessionId = NoSession
    /\ streaming = FALSE
    /\ input = ""
    /\ sessions = <<>>
    /\ messages = <<>>
    /\ dbSessions = <<>>
    /\ sends = <<>>
    /\ pending = <<>>
    /\ dels = <<>>
    /\ clicks = 0
    /\ resets = 0
UsersOff ==
    /\ users = <<>>
    /\ regs = <<>>
ToolsOff ==
    /\ round = 0
    /\ response = <<>>
    /\ toolCalls = <<>>
    /\ charts = <<>>
    /\ executed = <<>>
AppOff == ChatOff /\ UsersOff /\ ToolsOff
NoRes == [kind |-> "none"]

NoOutcome == [kind |-> "none", msg |-> "", videos |-> <<>>]
Thrown(msg) == [kind |-> "throw", msg |-> msg, videos |-> <<>>]
Returned(vs) == [kind |-> "return", msg |-> "", videos |-> vs]

\* after the loop: `if (!videos.length) throw`, else the snapshot
\* mutant: the emptiness test is missing
endOfLoopAlways(vs) == Returned(vs)

endOfLoop(vs) == IF vs = <<>> THEN Thrown("No videos found") ELSE Returned(vs)

RECURSIVE WatchRequests(_, _, _)
WatchRequests(ds, starts, j) ==
    IF j > Len(ds) THEN <<>>
    ELSE (IF j \in starts THEN <<Req(j, "watch", ds[j].videoId)>> ELSE <<>>)
         \o WatchRequests(ds, starts, j + 1)

\* mutant: no try/catch around the detail fetch, its error leaves the call
LoopStepNoCatch(det1, vids, i, newReqs) ==
    IF i > 0 /\ det1[i].st = "threw"
    THEN /\ det' = det1
         /\ videos' = videos
         /\ requests' = requests \o newReqs
         /\ pc' = "ended"
         /\ outcome' = Thrown("detail request failed")
    ELSE LET n      == Len(top')
             starts == {j \in loopStarts(i + 1, n) : det1[j].st = "notStarted"}
             det2   == [j \in 1..n |-> IF j \in starts
                                       THEN [det1[j] EXCEPT !.st = "awaitWatch"] ELSE det1[j]]
             over   == \A j \in 1..n : det2[j].st \in Finished
         IN  /\ det' = det2
             /\ videos' = vids
             /\ requests' = requests \o newReqs \o WatchRequests(det2, starts, 1)
             /\ pc' = IF over THEN "ended" ELSE "loop"
             /\ outcome' = IF over THEN endOfLoop(vids) ELSE NoOutcome

\* the loop with det1 as the fetch states, the fetch of stub i just settled
\* (i = 0: the loop is entered): start what the loop starts next, or leave
LoopStep(det1, vids, i, newReqs) ==
    LET n      == Len(top')
        starts == {j \in loopStarts(i + 1, n) : det1[j].st = "notStarted"}
        det2   == [j \in 1..n |-> IF j \in starts
                                  THEN [det1[j] EXCEPT !.st = "awaitWatch"] ELSE det1[j]]
        over   == \A j \in 1..n : det2[j].st \in Finished
    IN  /\ det' = det2
        /\ videos' = vids
        /\ requests' = requests \o newReqs \o WatchRequests(det2, starts, 1)
        /\ pc' = IF over THEN "ended" ELSE "loop"
        /\ outcome' = IF over THEN endOfLoop(vids) ELSE NoOutcome

\* before scrapeYouTubeChannelData is called, in the given mode
ScInitIn(m) ==
    /\ mode = m
    /\ AppOff
    /\ html = <<>>
    /\ exOut = [called |-> FALSE, isNull |-> TRUE, s |-> <<>>]
    /\ channelUrl \in ChannelUrlsIn(m)
    /\ rawMaxVideos \in RawMaxValuesIn(m)
    /\ pc = "idle"
    /\ listing = ListingPage("none", NullStr)
    /\ top = <<>>
    /\ det = <<>>
    /\ videos = <<>>
    /\ requests = <<>>
    /\ outcome = NoOutcome
    /\ arg = NoArg
    /\ res = NoRes

\* the call up to `await fetchHtml(videosPageUrl)`
ScrapeCall ==
    /\ pc = "idle"
    /\ IF extractHandle(channelUrl) = <<>>
       THEN /\ pc' = "ended"
            /\ outcome' = Thrown(InvalidUrlMessage)
            /\ UNCHANGED requests
       ELSE /\ pc' = "awaitListing"
            /\ requests' = Append(requests, Req(0, "listing", extractHandle(channelUrl)))
            /\ UNCHANGED outcome
    /\ UNCHANGED <<mode, channelUrl, rawMaxVideos, listing, top, det, videos>>
    /\ UNCHANGED <<app, html, exOut, arg, res>>

\* fetchHtml of the listing page rejects: the error leaves the call
ListingFails ==
    /\ pc = "awaitListing"
    /\ pc' = "ended"
    /\ outcome' = Thrown("listing request failed")
    /\ UNCHANGED <<mode, channelUrl, rawMaxVideos, listing, top, det, videos, requests>>
    /\ UNCHANGED <<app, html, exOut, arg, res>>

\* lines 522-541: the message of the error thrown before the loop, "" if none
listingError(page, tab, renderers) ==
    IF page.blob = "none" THEN "ytInitialData not found"
    ELSE IF page.blob = "badjson" THEN "Failed to parse ytInitialData"
    ELSE IF tab.isNull THEN "Videos tab not found in ytInitialData"
    ELSE IF renderers = <<>> THEN "No videos found"
    ELSE ""

\* the listing page arrives: blob, tab, stubs, and the loop is entered
ListingArrives ==
    /\ pc = "awaitListing"
    /\ \E page \in ListingPagesIn(mode) :
        /\ listing' = page
        /\ \E tab \in {pickVideosTab(page)} :
           \E renderers \in {collectVideoRenderers(tab.tab.content)} :
           \E stubs \in {selectTop(renderers, clampMaxVideos(rawMaxVideos))} :
               IF listingError(page, tab, renderers) # ""
               THEN /\ pc' = "ended"
                    /\ outcome' = Thrown(listingError(page, tab, renderers))
                    /\ UNCHANGED <<top, det, videos, requests>>
               ELSE /\ top' = stubs
                    /\ LoopStep([j \in 1..Len(stubs) |-> NotStarted(j, stubs[j].videoId)],
                                <<>>, 0, <<>>)
    /\ UNCHANGED <<mode, channelUrl, rawMaxVideos>>
    /\ UNCHANGED <<app, html, exOut, arg, res>>

\* one fetchVideoDetails call moved on to r.d; if it settled, the record is
\* pushed and the loop goes on
Settle(i, r0) ==
    /\ top' = top
    /\ \E r \in Run(r0) :
       IF r.d.st \in Finished
       THEN \E now \in NowPoolIn(mode) :
                LoopStep([det EXCEPT ![i] = r.d],
                         Append(videos, recordFor(top[i], r.d, now)), i, r.reqs)
       ELSE /\ det' = [det EXCEPT ![i] = r.d]
            /\ requests' = requests \o r.reqs
            /\ UNCHANGED <<videos, pc, outcome>>
    /\ UNCHANGED <<mode, channelUrl, rawMaxVideos, listing>>
    /\ UNCHANGED <<app, html, exOut, arg, res>>

\* fetchHtml of a watch page rejects
WatchFails ==
    /\ pc = "loop"
    /\ \E i \in 1..Len(det) :
        /\ det[i].st = "awaitWatch"
        /\ Settle(i, Go([det[i] EXCEPT !.st = "threw"], <<>>))

WatchArrives ==
    /\ pc = "loop"
    /\ \E i \in 1..Len(det), page \in WatchPagesIn(mode) :
        /\ det[i].st = "awaitWatch"
        /\ Settle(i, afterWatch(det[i], page))

\* the first caption request settles (transcript, or null on any failure)
CaptionArrives ==
    /\ pc = "loop"
    /\ \E i \in 1..Len(det), t \in CaptionResponses :
        /\ det[i].st = "awaitCaption1"
        /\ Settle(i, Go([det[i] EXCEPT !.transcript = t, !.st = "toCounts"], <<>>))

NextArrives ==
    /\ pc = "loop"
    /\ \E i \in 1..Len(det), resp \in NextResponses :
        /\ det[i].st = "awaitNext"
        /\ Settle(i, afterNext(det[i], resp))

PlayerArrives ==
    /\ pc = "loop"
    /\ \E i \in 1..Len(det), pl \in PlayerResponsesIn(mode) :
        /\ det[i].st = "awaitPlayer"
        /\ Settle(i, retryStep(det[i], pl))

\* the second caption request settles
SecondCaptionArrives ==
    /\ pc = "loop"
    /\ \E i \in 1..Len(det), t \in CaptionResponses :
        /\ det[i].st = "awaitCaption2"
        /\ Settle(i, Go([det[i] EXCEPT !.transcript = t, !.st = "toFinish"], <<>>))

ScNext ==
    \/ ScrapeCall
    \/ ListingFails
    \/ ListingArrives
    \/ WatchFails
    \/ WatchArrives
    \/ CaptionArrives
    \/ NextArrives
    \/ PlayerArrives
    \/ SecondCaptionArrives

-----------------------------------------------------------------------------
(* POST /api/youtube/download-channel (src/server/index.js)                *)

\* the request bodies of the modelled requests: channelUrl and maxVideos
RouteBodies ==
    { [f |-> "route", channelUrl |-> u, maxVideos |-> x] :
        u \in { Str(<<"https://www.", "youtube.com/", "@", "veritasium">>),
                Str(<<"https://www.", "youtube.com/", "channel/", "UC1">>),
                NullStr },
        x \in { RawMissing, RawText, RawNum(1), RawNumStr(MaxRequested), RawNumStr(0),
                RawNum(MinVideos - 1), RawNum(MinVideos - 2), RawNum(MaxVideosCap + 1) } }

RouteInit ==
    /\ mode = "route"
    /\ AppOff
    /\ arg \in RouteBodies
    /\ res = NoRes
    /\ html = <<>>
    /\ exOut = [called |-> FALSE, isNull |-> TRUE, s |-> <<>>]
    /\ channelUrl = NullStr
    /\ rawMaxVideos = RawMissing
    /\ pc = "request"
    /\ listing = ListingPage("none", NullStr)
    /\ top = <<>>
    /\ det = <<>>
    /\ videos = <<>>
    /\ requests = <<>>
    /\ outcome = NoOutcome

Response(status, error) == [kind |-> "response", status |-> status, error |-> error]

\* the number the route computed, as the second argument of the core
AsRawMax(n) == IF n.k = "num" THEN RawNum(n.n) ELSE RawNaN

\* lines 59-62: the handler up to the call of scrapeYouTubeChannelData
RouteCall ==
    /\ mode = "route"
    /\ pc = "request"
    /\ IF arg.channelUrl.isNull \/ arg.channelUrl.s = <<>>
       THEN /\ pc' = "responded"
            /\ res' = Response(400, "channelUrl required")
            /\ UNCHANGED <<channelUrl, rawMaxVideos>>
       ELSE /\ pc' = "idle"
            /\ channelUrl' = arg.channelUrl
            /\ rawMaxVideos' = AsRawMax(clampMaxVideos(arg.maxVideos))
            /\ UNCHANGED res
    /\ UNCHANGED <<mode, app, html, exOut, arg, listing, top, det, videos, requests, outcome>>

\* lines 69-76: the status for an error message, by the texts it includes
statusOf(msg) ==
    IF msg \in {"ytInitialData not found", InvalidUrlMessage} THEN 400
    ELSE IF msg = "No videos found" THEN 404
    ELSE IF msg = "Failed to parse ytInitialData" THEN 400
    ELSE 500

\* lines 64-65 and 66-77: the payload, or the error with its status
RouteRespond ==
    /\ mode = "route"
    /\ pc = "ended"
    /\ pc' = "responded"
    /\ res' = IF outcome.kind = "return" THEN Response(200, "")
              ELSE Response(statusOf(outcome.msg), outcome.msg)
    /\ UNCHANGED <<mode, app, html, exOut, arg, channelUrl, rawMaxVideos, listing, top, det,
                   videos, requests, outcome>>

RouteNext ==
    \/ RouteCall
    \/ RouteRespond
    \/ ScNext

\* the html arguments: something before the marker, the marker or not, and a
\* text of braces, quotes and backslashes
HtmlInputs ==
    {pre \o mk \o body : pre \in {<<>>, <<"{", "a">>}, mk \in {Marker, <<>>},
                         body \in SeqsUpTo({"{", "}", "\"", "\\"}, MaxBody)}

ExInit ==
    /\ mode = "extract"
    /\ AppOff
    /\ channelUrl = NullStr
    /\ rawMaxVideos = RawMissing
    /\ arg = NoArg
    /\ res = NoRes
    /\ pc = "off"
    /\ listing = ListingPage("none", NullStr)
    /\ top = <<>>
    /\ det = <<>>
    /\ videos = <<>>
    /\ requests = <<>>
    /\ outcome = NoOutcome
    /\ html \in HtmlInputs
    /\ exOut = [called |-> FALSE, isNull |-> TRUE, s |-> <<>>]

CallExtract ==
    /\ mode = "extract"
    /\ ~exOut.called
    /\ LET r == extractJsonAfterMarker(html, Marker)
       IN  exOut' = [called |-> TRUE, isNull |-> r.isNull, s |-> r.s]
    /\ UNCHANGED <<mode, app, html, arg, res>>
    /\ UNCHANGED <<channelUrl, rawMaxVideos, pc, listing, top, det, videos, requests, outcome>>

\* the helpers called alone: one call per behaviour, arg the argument and
\* res what the call returned or threw
ParseCountArgs ==
    { [f |-> "parseCountText", x |-> x] :
        x \in {NullStr}
              \cup {Str(s) : s \in SeqsUpTo({"1", "5", ",", ".", "k", " "}, MaxText)}
              \cup { Str(<<"1", ".", "2", "M">>), Str(<<"3", ",", "4", "0", "0">>),
                     Str(<<"n", "o", " ", "d", "a", "t", "a">>) } }

\* date texts: a prefix or none, then a relative text, a calendar date, a
\* text that is no date, or nothing; and an ISO date
DatePrefixes == {<<>>, <<"Streamed">>, <<"premiered">>, <<"Uploaded">>, <<"STREAMED">>}
DateBodies ==
    { <<n, u, "ago">> : n \in NumTokens,
                        u \in {"minutes", "hour", "days", "week", "months", "year", "years"} }
    \cup { <<"Jan", "1,", "2020">>, <<"soon">>, <<>> }
DateTexts ==
    {NullStr, Str(<<"2021-03-04">>)}
    \cup {Str(pre \o body) : pre \in DatePrefixes, body \in DateBodies}
Nows == {DateOf(2024, 1, 15, 0), DateOf(2024, 2, 29, 600), DateOf(2024, 3, 31, 5)}

DateArgs ==
    { [f |-> f, raw |-> raw, now |-> now] :
        f \in {"normalizeReleaseDate", "backwardInductionDate"},
        raw \in DateTexts, now \in Nows }

\* trees: a leaf or a renderer, or an array or object around a tree of the
\* level below, alone or beside a second value, or a renderer that holds
\* the tree of the level below
PlainRenderer(id) == Renderer(id, "T", NullStr, NullStr, NullStr)
RECURSIVE TreesUpTo(_)
TreesUpTo(d) ==
    IF d = 0 THEN {NullLeaf, PlainRenderer("a")}
    ELSE LET below == TreesUpTo(d - 1)
             side  == {NullLeaf, Obj(<<Field("videoRenderer", PlainRenderer("b"))>>)}
             pairs == {<<"videoRenderer", "a">>, <<"a", "videoRenderer">>, <<"a", "1">>}
         IN  {NullLeaf, PlainRenderer("a")}
             \cup {Arr(<<t>>) : t \in below}
             \cup {Arr(<<t, u>>) : t \in below, u \in side}
             \cup {Arr(<<u, t>>) : t \in below, u \in side}
             \cup {Obj(<<Field(key, t)>>) : key \in {"videoRenderer", "a"}, t \in below}
             \cup {Obj(<<Field(kp[1], t), Field(kp[2], u)>>) :
                       kp \in pairs, t \in below, u \in side}
             \cup {Obj(<<Field(kp[1], u), Field(kp[2], t)>>) :
                       kp \in pairs, t \in below, u \in side}
             \cup {Obj(<<Field("videoRenderer",
                                [PlainRenderer("c") EXCEPT !.kids = <<Field("a", t)>>])>>) :
                       t \in below}

TreeArgs ==
    { [f |-> "collectVideoRenderers", node |-> n] :
        n \in TreesUpTo(MaxDepth)
              \cup {Grid(<<PlainRenderer("a"), PlainRenderer("b"), PlainRenderer("c")>>)} }

\* the three markers of a blob, as 'var X = ', 'window["X"] = ' and 'X = ':
\* the third is the end of the first
BlobMarkers == << <<"v", "m", "=">>, <<"w", "=">>, <<"m", "=">> >>

\* extractJsonByMarkers(html, markers): the first extraction that is not
\* null; lines 522-525 chain the same three extractions with ||
RECURSIVE extractJsonByMarkers(_, _)
extractJsonByMarkers(h, markers) ==
    IF markers = <<>> THEN NullStr
    ELSE IF ~extractJsonAfterMarker(h, Head(markers)).isNull
    THEN extractJsonAfterMarker(h, Head(markers))
    ELSE extractJsonByMarkers(h, Tail(markers))

\* JSON.parse(text) succeeds; of the texts of braces extractJsonAfterMarker
\* can return, only {} is JSON
JsonParses(text) == text = <<"{", "}">>

\* lines 522-533 (and 387-410 for a blob of the watch page): the blob is
\* not found, does not parse, or is parsed
blobStatus(h) ==
    IF extractJsonByMarkers(h, BlobMarkers).isNull THEN "none"
    ELSE IF ~JsonParses(extractJsonByMarkers(h, BlobMarkers).s) THEN "badjson"
    ELSE "ok"

\* pages: up to MaxSegments marked texts, each a balanced text that is
\* JSON, a balanced text that is not, or an unbalanced text
MarkedTexts ==
    { BlobMarkers[i] \o body :
        i \in 1..3, body \in { <<"{", "}">>, <<"{", "{", "}", "}">>, <<"{">> } }
BlobArgs ==
    { [f |-> "blobStatus", html |-> Flatten(segs)] : segs \in SeqsUpTo(MarkedTexts, MaxSegments) }

\* tab lists: no list, or up to MaxTabs tabs with or without a title that
\* names videos, selected or not
TabPool ==
    { Tab("Home", FALSE, NullLeaf), Tab("Shorts", TRUE, NullLeaf),
      Tab("Video uploads", FALSE, NullLeaf), Tab("videos", FALSE, NullLeaf),
      Tab("Videos", TRUE, NullLeaf) }
TabArgs ==
    { [f |-> "pickVideosTab", data |-> ListingPage("ok", tabs)] :
        tabs \in {NullStr} \cup {Str(s) : s \in SeqsUpTo(TabPool, MaxTabs)} }

PureArgs == ParseCountArgs \cup DateArgs \cup TreeArgs \cup TabArgs \cup BlobArgs

PureInit ==
    /\ mode = "pure"
    /\ AppOff
    /\ arg \in PureArgs
    /\ res = NoRes
    /\ pc = "call"
    /\ html = <<>>
    /\ exOut = [called |-> FALSE, isNull |-> TRUE, s |-> <<>>]
    /\ channelUrl = NullStr
    /\ rawMaxVideos = RawMissing
    /\ listing = ListingPage("none", NullStr)
    /\ top = <<>>
    /\ det = <<>>
    /\ videos = <<>>
    /\ requests = <<>>
    /\ outcome = NoOutcome

\* the helper's call ends with result r
Ends(r) ==
    /\ mode = "pure"
    /\ pc = "call"
    /\ res' = r
    /\ pc' = "returned"
    /\ UNCHANGED <<mode, app, html, exOut, arg, channelUrl, rawMaxVideos, listing, top, det,
                   videos, requests, outcome>>

CallParseCountText ==
    /\ arg.f = "parseCountText"
    /\ Ends(Returns(parseCountText(arg.x)))

CallNormalizeReleaseDate ==
    /\ arg.f = "normalizeReleaseDate"
    /\ Ends(normalizeReleaseDate(arg.raw, arg.now))

CallBackwardInductionDate ==
    /\ arg.f = "backwardInductionDate"
    /\ Ends(Returns(backwardInductionDate(arg.raw, arg.now)))

CallCollectVideoRenderers ==
    /\ arg.f = "collectVideoRenderers"
    /\ Ends(Returns(collectVideoRenderers(arg.node)))

CallPickVideosTab ==
    /\ arg.f = "pickVideosTab"
    /\ Ends(Returns(pickVideosTab(arg.data)))

CallBlobStatus ==
    /\ arg.f = "blobStatus"
    /\ Ends(Returns(blobStatus(arg.html)))

PureNext ==
    \/ CallParseCountText
    \/ CallBlobStatus
    \/ CallPickVideosTab
    \/ CallCollectVideoRenderers
    \/ CallNormalizeReleaseDate
    \/ CallBackwardInductionDate

-----------------------------------------------------------------------------
(* The Chat component: handleSend                                          *)
(*                                                                         *)
(* The source holds two Chat components.  The first (lines 419-1176 of     *)
(* src/src/services/youtubeTools.js) imports CODE_KEYWORDS from            *)
(* ../services/gemini (line 305), which does not export it: its handleSend *)
(* throws at line 680, before anything is shown; with the gemini.js it was *)
(* written against (not in src/) CODE_KEYWORDS is a RegExp and handleSend  *)
(* goes on.  Both outcomes are kept (codeKeywords).  The first component   *)
(* awaits its two saveMessage calls outside any try; the second (lines     *)
(* 1323-2228) wraps everything after setStreaming(true) in try / catch /   *)
(* finally.  Sends carry text only; images, CSV and channel JSON           *)
(* attachments are left out.  A request of the client takes two steps: the *)
(* route runs on the server, and later its answer reaches the client.      *)

\* the scraper is not in use
ScrapeOff(m) ==
    /\ mode = m
    /\ html = <<>>
    /\ exOut = [called |-> FALSE, isNull |-> TRUE, s |-> <<>>]
    /\ channelUrl = NullStr
    /\ rawMaxVideos = RawMissing
    /\ listing = ListingPage("none", NullStr)
    /\ top = <<>>
    /\ det = <<>>
    /\ videos = <<>>
    /\ requests = <<>>
    /\ outcome = NoOutcome

Components == {"first", "second"}

\* a document of the sessions collection (server/index.js, lines 181-194)
SessionDoc(id, msgs) == [id |-> id, messages |-> msgs]

\* a GET request of the client: whether its route has run, and the answer
\* the route computed
GetSessions == [kind |-> "sessions", id |-> NoSession, served |-> FALSE, list |-> <<>>, msgs |-> <<>>]
LoadMessages(id) == [kind |-> "messages", id |-> id, served |-> FALSE, list |-> <<>>, msgs |-> <<>>]

\* the collection at login: empty, or one earlier session of the user
DbPool == { <<>>, <<SessionDoc(SessionId(0), <<"user", "model">>)>> }

\* useState initial values, lines 420-435 and 1324-1340, and the effect of
\* lines 445-452 up to `await getSessions`
ChatInit ==
    /\ ScrapeOff("chat")
    /\ pc = "off"
    /\ arg = NoArg
    /\ res = NoRes
    /\ component \in Components
    /\ codeKeywords \in (IF component = "first" THEN BOOLEAN ELSE {FALSE})
    /\ activeSessionId = NoSession
    /\ streaming = FALSE
    /\ input = ""
    /\ sessions = <<>>
    /\ messages = <<>>
    /\ dbSessions \in DbPool
    /\ sends = <<>>
    /\ pending = <<GetSessions>>
    /\ dels = <<>>
    /\ clicks = 0
    /\ resets = 0
    /\ UsersOff
    /\ ToolsOff

\* one handleSend invocation: where it is suspended, its local sessionId,
\* the number of resets when it was called, and whether the route of the
\* request it awaits has run
Send(at, sessionId, chat) == [at |-> at, sessionId |-> sessionId, chat |-> chat, served |-> FALSE]

\* one handleDeleteSession invocation awaiting deleteSession: the id, and
\* the sessions and activeSessionId of the render it was called from
Del(id, list, active) == [id |-> id, sessions |-> list, active |-> active, served |-> FALSE]

\* an entry of the sidebar list
SessionItem(id, messageCount) == [id |-> id, messageCount |-> messageCount]

\* the guard of handleSend, lines 661-662: true when the call returns at once
sendRefused(text, isStreaming, active) ==
    Trim(text) = <<>> \/ isStreaming \/ active = NoSession

\* line 680 of the first component: when the import of line 305 gave
\* undefined, CODE_KEYWORDS.test(text) throws a TypeError
throwsAt680 == component = "first" /\ ~codeKeywords

\* the text typed, as characters
Chars(s) == IF s = "" THEN <<>> ELSE IF s = " " THEN <<" ">> ELSE <<"h", "i">>

\* prev.map(s => s.id === sessionId ? {...s, messageCount: s.messageCount + 2} : s)
countTwoMore(list, id) ==
    [i \in 1..Len(list) |->
        IF list[i].id = id THEN SessionItem(id, list[i].messageCount + 2) ELSE list[i]]

\* GET /api/sessions: the documents sorted by createdAt, newest first
listed(docs) ==
    [i \in 1..Len(docs) |->
        SessionItem(docs[Len(docs) + 1 - i].id, Len(docs[Len(docs) + 1 - i].messages))]

\* POST /api/messages: $push on the document with that id, if there is one
pushed(docs, id, role) ==
    [i \in 1..Len(docs) |->
        IF docs[i].id = id THEN SessionDoc(id, Append(docs[i].messages, role)) ELSE docs[i]]

\* GET /api/messages: the roles of doc?.messages || []
stored(docs, id) ==
    IF \E i \in 1..Len(docs) : docs[i].id = id
    THEN docs[CHOOSE i \in 1..Len(docs) : docs[i].id = id].messages
    ELSE <<>>

\* list.filter((s) => s.id !== id)
without(list, id) == SelectSeq(list, LAMBDA s : s.id # id)

\* the effect of lines 1393-1405, of the second component only: an empty
\* 'new' chat gets the welcome message of the model
welcomed(active, msgs) ==
    IF component = "second" /\ active = NewSession /\ msgs = <<>> THEN <<"model">> ELSE msgs

\* setActiveSessionId(active) with setMessages([]), and the effect of lines
\* 455-468 when activeSessionId changed: loadMessages for a saved session
switchTo(active) ==
    /\ activeSessionId' = active
    /\ messages' = welcomed(active, <<>>)
    /\ pending' = IF active # activeSessionId /\ active.k = "id"
                  THEN Append(pending, LoadMessages(active)) ELSE pending
    /\ resets' = IF active = NewSession THEN resets + 1 ELSE resets

\* the sequence q without its element k
Dropped(q, k) == SubSeq(q, 1, k - 1) \o SubSeq(q, k + 1, Len(q))

\* GET /api/sessions runs on the server, index.js lines 158-179
ServeSessions ==
    /\ mode = "chat"
    /\ \E k \in 1..Len(pending) :
        /\ pending[k].kind = "sessions"
        /\ ~pending[k].served
        /\ pending' = [pending EXCEPT ![k].served = TRUE, ![k].list = listed(dbSessions)]
    /\ UNCHANGED <<component, codeKeywords, activeSessionId, streaming, input, sessions, messages, dbSessions, sends>>
    /\ UNCHANGED <<dels, clicks, resets>>
    /\ UNCHANGED <<scrapeVars, userVars, toolVars>>

\* GET /api/messages runs on the server, index.js lines 248-278
ServeMessages ==
    /\ mode = "chat"
    /\ \E k \in 1..Len(pending) :
        /\ pending[k].kind = "messages"
        /\ ~pending[k].served
        /\ pending' = [pending EXCEPT ![k].served = TRUE,
                                      ![k].msgs = stored(dbSessions, pending[k].id)]
    /\ UNCHANGED <<component, codeKeywords, activeSessionId, streaming, input, sessions, messages, dbSessions, sends>>
    /\ UNCHANGED <<dels, clicks, resets>>
    /\ UNCHANGED <<scrapeVars, userVars, toolVars>>

\* DELETE /api/sessions/:id runs on the server, index.js lines 199-206
ServeDelete ==
    /\ mode = "chat"
    /\ \E k \in 1..Len(dels) :
        /\ ~dels[k].served
        /\ dels' = [dels EXCEPT ![k].served = TRUE]
        /\ dbSessions' = without(dbSessions, dels[k].id)
    /\ UNCHANGED <<component, codeKeywords, activeSessionId, streaming, input, sessions, messages, sends>>
    /\ UNCHANGED <<pending, clicks, resets>>
    /\ UNCHANGED <<scrapeVars, userVars, toolVars>>

\* POST /api/sessions runs on the server, index.js lines 181-197
ServeCreate ==
    /\ mode = "chat"
    /\ \E i \in 1..Len(sends) :
        /\ sends[i].at = "awaitCreate"
        /\ ~sends[i].served
        /\ sends' = [sends EXCEPT ![i].served = TRUE]
        /\ dbSessions' = Append(dbSessions, SessionDoc(SessionId(i), <<>>))
    /\ UNCHANGED <<component, codeKeywords, activeSessionId, streaming, input, sessions, messages>>
    /\ UNCHANGED <<pending, dels, clicks, resets>>
    /\ UNCHANGED <<scrapeVars, userVars, toolVars>>

\* the role of the message a handleSend invocation is saving
roleAt(at) == IF at = "awaitSaveUser" THEN "user" ELSE "model"

\* POST /api/messages runs on the server, index.js lines 223-246
ServeSave ==
    /\ mode = "chat"
    /\ \E i \in 1..Len(sends) :
        /\ sends[i].at \in {"awaitSaveUser", "awaitSaveModel"}
        /\ ~sends[i].served
        /\ sends' = [sends EXCEPT ![i].served = TRUE]
        /\ dbSessions' = pushed(dbSessions, sends[i].sessionId, roleAt(sends[i].at))
    /\ UNCHANGED <<component, codeKeywords, activeSessionId, streaming, input, sessions, messages>>
    /\ UNCHANGED <<pending, dels, clicks, resets>>
    /\ UNCHANGED <<scrapeVars, userVars, toolVars>>

\* getSessions settles, lines 445-452 (1359-1371): the list the route gave
\* is shown and the unsaved 'new' chat becomes active; the effect of lines
\* 455-458 empties the messages when activeSessionId changed.  On failure
\* the second component shows no sessions and the effect of the first rejects
InitSessions ==
    /\ mode = "chat"
    /\ \E k \in 1..Len(pending), ok \in BOOLEAN :
        /\ pending[k].kind = "sessions"
        /\ ok => pending[k].served
        /\ pending' = Dropped(pending, k)
        /\ IF ok \/ component = "second"
           THEN /\ sessions' = IF ok THEN pending[k].list ELSE <<>>
                /\ activeSessionId' = NewSession
                /\ messages' = IF activeSessionId # NewSession
                               THEN welcomed(NewSession, <<>>) ELSE messages
                /\ resets' = IF activeSessionId # NewSession THEN resets + 1 ELSE resets
           ELSE UNCHANGED <<sessions, activeSessionId, messages, resets>>
    /\ UNCHANGED <<component, codeKeywords, streaming, input, dbSessions, sends, dels, clicks>>
    /\ UNCHANGED <<scrapeVars, userVars, toolVars>>

\* loadMessages settles, lines 465-467 (1384-1390): the messages the route
\* read are shown; on failure the second component shows none
LoadSettles ==
    /\ mode = "chat"
    /\ \E k \in 1..Len(pending), ok \in BOOLEAN :
        /\ pending[k].kind = "messages"
        /\ ok => pending[k].served
        /\ pending' = Dropped(pending, k)
        /\ messages' = IF ok THEN welcomed(activeSessionId, pending[k].msgs)
                       ELSE IF component = "second" THEN welcomed(activeSessionId, <<>>)
                       ELSE messages
    /\ UNCHANGED <<component, codeKeywords, activeSessionId, streaming, input, sessions, dbSessions, sends, dels, clicks, resets>>
    /\ UNCHANGED <<scrapeVars, userVars, toolVars>>

\* onChange of the textarea, which is disabled while streaming
TypeInput ==
    /\ mode = "chat"
    /\ ~streaming
    /\ Len(sends) < MaxSends
    /\ Len(sends) + clicks < MaxActs
    /\ \E s \in {"", " ", "hi"} :
        /\ s # input
        /\ input' = s
    /\ UNCHANGED <<component, codeKeywords, activeSessionId, streaming, sessions, messages, dbSessions, sends>>
    /\ UNCHANGED <<pending, dels, clicks, resets>>
    /\ UNCHANGED <<scrapeVars, userVars, toolVars>>

\* handleNewChat, lines 483-493 (1434-1444)
NewChat ==
    /\ mode = "chat"
    /\ clicks < MaxClicks
    /\ Len(sends) + clicks < MaxActs
    /\ clicks' = clicks + 1
    /\ switchTo(NewSession)
    /\ input' = ""
    /\ UNCHANGED <<component, codeKeywords, streaming, sessions, dbSessions, sends, dels>>
    /\ UNCHANGED <<scrapeVars, userVars, toolVars>>

\* handleSelectSession, lines 495-503 (1446-1454), on an entry of the sidebar
SelectSession ==
    /\ mode = "chat"
    /\ clicks < MaxClicks
    /\ Len(sends) + clicks < MaxActs
    /\ \E k \in 1..Len(sessions) :
        /\ sessions[k].id # activeSessionId
        /\ switchTo(sessions[k].id)
    /\ clicks' = clicks + 1
    /\ input' = ""
    /\ UNCHANGED <<component, codeKeywords, streaming, sessions, dbSessions, sends, dels>>
    /\ UNCHANGED <<scrapeVars, userVars, toolVars>>

\* handleDeleteSession up to `await deleteSession`, lines 505-508 (1456-1459)
DeleteSession ==
    /\ mode = "chat"
    /\ clicks < MaxClicks
    /\ Len(sends) + clicks < MaxActs
    /\ \E k \in 1..Len(sessions) :
        dels' = Append(dels, Del(sessions[k].id, sessions, activeSessionId))
    /\ clicks' = clicks + 1
    /\ UNCHANGED <<component, codeKeywords, activeSessionId, streaming, input, sessions, messages, dbSessions, sends>>
    /\ UNCHANGED <<pending, resets>>
    /\ UNCHANGED <<scrapeVars, userVars, toolVars>>

\* the active session after its deletion: the first that remains, or 'new'
nextActive(remaining) == IF remaining # <<>> THEN remaining[1].id ELSE NewSession

\* deleteSession settles, lines 508-514 (1459-1465): the list the handler
\* was called with is shown without the session, or the call rejects
DeleteSettles ==
    /\ mode = "chat"
    /\ \E k \in 1..Len(dels), ok \in BOOLEAN :
        /\ ok => dels[k].served
        /\ dels' = Dropped(dels, k)
        /\ IF ok
           THEN /\ sessions' = without(dels[k].sessions, dels[k].id)
                /\ IF dels[k].active = dels[k].id
                   THEN switchTo(nextActive(without(dels[k].sessions, dels[k].id)))
                   ELSE UNCHANGED <<activeSessionId, messages, pending, resets>>
           ELSE UNCHANGED <<sessions, activeSessionId, messages, pending, resets>>
    /\ UNCHANGED <<component, codeKeywords, streaming, input, dbSessions, sends, clicks>>
    /\ UNCHANGED <<scrapeVars, userVars, toolVars>>

\* lines 1722-1730 (743-751 in the first component): the user message is
\* shown, the input cleared, streaming set, and saveMessage called
showAndSave(i, sessionId) ==
    /\ messages' = Append(messages, "user")
    /\ input' = ""
    /\ streaming' = TRUE
    /\ sends' = [k \in DOMAIN sends \cup {i} |->
                    IF k = i THEN Send("awaitSaveUser", sessionId, resets) ELSE sends[k]]

\* handleSend from its call to its first await or throw (Enter in the
\* textarea, or the Send button, which the Stop button replaces while
\* streaming)
StartSend ==
    /\ mode = "chat"
    /\ Len(sends) < MaxSends
    /\ Len(sends) + clicks < MaxActs
    /\ ~sendRefused(Chars(input), streaming, activeSessionId)
    /\ IF activeSessionId = NewSession
       THEN /\ sends' = Append(sends, Send("awaitCreate", NewSession, resets))
            /\ UNCHANGED <<messages, input, streaming>>
       ELSE IF throwsAt680
       THEN /\ sends' = Append(sends, Send("rejected", activeSessionId, resets))
            /\ UNCHANGED <<messages, input, streaming>>
       ELSE showAndSave(Len(sends) + 1, activeSessionId)
    /\ UNCHANGED <<component, codeKeywords, activeSessionId, sessions, dbSessions>>
    /\ UNCHANGED <<pending, dels, clicks, resets>>
    /\ UNCHANGED <<scrapeVars, userVars, toolVars>>

\* createSession settles, lines 667-672 (1628-1633): the session becomes
\* active and is put first in the sidebar, and the call goes on to line 680
\* (throw) or to saveMessage; or the call rejects.  The effect of lines
\* 455-468 skips the reload for the session just created
CreateSettles ==
    /\ mode = "chat"
    /\ \E i \in 1..Len(sends), ok \in BOOLEAN :
        /\ sends[i].at = "awaitCreate"
        /\ ok => sends[i].served
        /\ IF ok
           THEN /\ activeSessionId' = SessionId(i)
                /\ sessions' = <<SessionItem(SessionId(i), 0)>> \o sessions
                /\ IF throwsAt680
                   THEN /\ sends' = [sends EXCEPT ![i] = Send("rejected", SessionId(i), @.chat)]
                        /\ UNCHANGED <<messages, input, streaming>>
                   ELSE /\ messages' = Append(messages, "user")
                        /\ input' = ""
                        /\ streaming' = TRUE
                        /\ sends' = [sends EXCEPT ![i] = Send("awaitSaveUser", SessionId(i), @.chat)]
           ELSE /\ sends' = [sends EXCEPT ![i] = Send("rejected", @.sessionId, @.chat)]
                /\ UNCHANGED <<activeSessionId, sessions, messages, input, streaming>>
    /\ UNCHANGED <<component, codeKeywords, dbSessions, pending, dels, clicks, resets>>
    /\ UNCHANGED <<scrapeVars, userVars, toolVars>>

\* the call ends in the catch and finally of the second component
\* (lines 1901-1913), or rejects in the first, whose awaits of lines 751
\* and 867 are outside any try
failed(i) ==
    IF component = "second"
    THEN /\ sends' = [sends EXCEPT ![i] = Send("caught", @.sessionId, @.chat)]
         /\ streaming' = FALSE
    ELSE /\ sends' = [sends EXCEPT ![i] = Send("rejected", @.sessionId, @.chat)]
         /\ UNCHANGED streaming

\* saveMessage of the user message settles, lines 751 and 1730
SaveUserSettles ==
    /\ mode = "chat"
    /\ \E i \in 1..Len(sends), ok \in BOOLEAN :
        /\ sends[i].at = "awaitSaveUser"
        /\ ok => sends[i].served
        /\ IF ok
           THEN /\ messages' = Append(messages, "model")
                /\ sends' = [sends EXCEPT ![i] = Send("awaitModel", @.sessionId, @.chat)]
                /\ UNCHANGED streaming
           ELSE /\ failed(i)
                /\ UNCHANGED messages
    /\ UNCHANGED <<component, codeKeywords, activeSessionId, input, sessions, dbSessions>>
    /\ UNCHANGED <<pending, dels, clicks, resets>>
    /\ UNCHANGED <<scrapeVars, userVars, toolVars>>

\* the model call settles: the answer is complete; on failure the first
\* component catches and goes on to save the error text (lines 768-851),
\* the second ends in its catch (lines 1738-1913)
ModelSettles ==
    /\ mode = "chat"
    /\ \E i \in 1..Len(sends), ok \in BOOLEAN :
        /\ sends[i].at = "awaitModel"
        /\ IF ok \/ component = "first"
           THEN /\ sends' = [sends EXCEPT ![i].at = "awaitSaveModel"]
                /\ UNCHANGED streaming
           ELSE failed(i)
    /\ UNCHANGED <<component, codeKeywords, activeSessionId, input, sessions, messages, dbSessions>>
    /\ UNCHANGED <<pending, dels, clicks, resets>>
    /\ UNCHANGED <<scrapeVars, userVars, toolVars>>

\* saveMessage of the model message settles, lines 867-880 (1888-1899 and
\* the finally of lines 1912-1913)
SaveModelSettles ==
    /\ mode = "chat"
    /\ \E i \in 1..Len(sends), ok \in BOOLEAN :
        /\ sends[i].at = "awaitSaveModel"
        /\ ok => sends[i].served
        /\ IF ok
           THEN /\ sessions' = countTwoMore(sessions, sends[i].sessionId)
                /\ streaming' = FALSE
                /\ sends' = [sends EXCEPT ![i] = Send("done", @.sessionId, @.chat)]
           ELSE /\ failed(i)
                /\ UNCHANGED sessions
    /\ UNCHANGED <<component, codeKeywords, activeSessionId, input, messages, dbSessions>>
    /\ UNCHANGED <<pending, dels, clicks, resets>>
    /\ UNCHANGED <<scrapeVars, userVars, toolVars>>

\* a route runs on the server, or a pending request of the component settles
ChatSettles ==
    \/ ServeSessions
    \/ ServeMessages
    \/ ServeDelete
    \/ ServeCreate
    \/ ServeSave
    \/ InitSessions
    \/ LoadSettles
    \/ DeleteSettles
    \/ CreateSettles
    \/ SaveUserSettles
    \/ ModelSettles
    \/ SaveModelSettles

ChatNext ==
    \/ ServeSessions
    \/ ServeMessages
    \/ ServeDelete
    \/ ServeCreate
    \/ ServeSave
    \/ InitSessions
    \/ LoadSettles
    \/ TypeInput
    \/ NewChat
    \/ SelectSession
    \/ DeleteSession
    \/ DeleteSettles
    \/ StartSend
    \/ CreateSettles
    \/ SaveUserSettles
    \/ ModelSettles
    \/ SaveModelSettles

-----------------------------------------------------------------------------
(* POST /api/users (src/server/index.js, lines 97-118)                     *)

\* request bodies: the username as characters, the other required fields
\* as present ("x") or missing ("")
RegBody(username, password, firstName, lastName) ==
    [username |-> username, password |-> password, firstName |-> firstName, lastName |-> lastName]
RegBodies ==
    { RegBody(u, "x", "x", "x") : u \in { <<"B", "o">>, <<"b", "o", " ">>, <<" ", "b", "o">>, <<"c">> } }
    \cup { RegBody(<<>>, "x", "x", "x"), RegBody(<<"c">>, "", "x", "x"),
           RegBody(<<"c">>, "x", "", "x"), RegBody(<<"c">>, "x", "x", "") }

UsersInit ==
    /\ ScrapeOff("users")
    /\ pc = "off"
    /\ arg = NoArg
    /\ res = NoRes
    /\ ChatOff
    /\ users = <<>>
    /\ regs = <<>>
    /\ ToolsOff

\* one request: its body, where its handler is suspended, the normalized
\* name, and the response once sent
Reg(body, at, name, status, error) ==
    [body |-> body, at |-> at, name |-> name, status |-> status, error |-> error]

\* String(username).trim().toLowerCase()
normalizeUsername(username) == ToLower(Trim(username))

\* line 100: a required field is missing or empty
incomplete(body) ==
    body.username = <<>> \/ body.password = "" \/ body.firstName = "" \/ body.lastName = ""

\* findOne({ username: name }) finds a document
existing(docs, name) == \E i \in 1..Len(docs) : docs[i].username = name

\* lines 99-103: the handler up to `await findOne`
PostUser ==
    /\ mode = "users"
    /\ Len(regs) < MaxRegs
    /\ \E body \in RegBodies :
        regs' = Append(regs,
                    IF incomplete(body)
                    THEN Reg(body, "responded", <<>>, 400, "required")
                    ELSE Reg(body, "awaitFind", normalizeUsername(body.username), 0, ""))
    /\ UNCHANGED users
    /\ UNCHANGED <<scrapeVars, chatVars, toolVars>>

\* lines 103-105: findOne answers with the collection as it is now, or fails
FindSettles ==
    /\ mode = "users"
    /\ \E i \in 1..Len(regs), ok \in BOOLEAN :
        /\ regs[i].at = "awaitFind"
        /\ regs' = [regs EXCEPT ![i] =
                IF ~ok THEN [@ EXCEPT !.at = "responded", !.status = 500, !.error = "err"]
                ELSE IF existing(users, regs[i].name)
                THEN [@ EXCEPT !.at = "responded", !.status = 400, !.error = "Username already exists"]
                ELSE [@ EXCEPT !.at = "awaitHash"]]
    /\ UNCHANGED users
    /\ UNCHANGED <<scrapeVars, chatVars, toolVars>>

\* line 105: bcrypt.hash resolves and insertOne is called
HashSettles ==
    /\ mode = "users"
    /\ \E i \in 1..Len(regs) :
        /\ regs[i].at = "awaitHash"
        /\ regs' = [regs EXCEPT ![i].at = "awaitInsert"]
    /\ UNCHANGED users
    /\ UNCHANGED <<scrapeVars, chatVars, toolVars>>

\* lines 106-114: insertOne adds the document and the handler answers ok,
\* or insertOne fails and the catch answers 500
InsertSettles ==
    /\ mode = "users"
    /\ \E i \in 1..Len(regs), ok \in BOOLEAN :
        /\ regs[i].at = "awaitInsert"
        /\ IF ok
           THEN /\ users' = Append(users, [username |-> regs[i].name, by |-> i])
                /\ regs' = [regs EXCEPT ![i].at = "responded", ![i].status = 200]
           ELSE /\ regs' = [regs EXCEPT ![i].at = "responded", ![i].status = 500, ![i].error = "err"]
                /\ UNCHANGED users
    /\ UNCHANGED <<scrapeVars, chatVars, toolVars>>

UsersNext ==
    \/ PostUser
    \/ FindSettles
    \/ HashSettles
    \/ InsertSettles

-----------------------------------------------------------------------------
(* chatWithCsvTools and chatWithYouTubeTools (src/src/services/gemini.js)  *)

\* `round < 5`, lines 179 and 232
MaxRounds == 5

\* the parts of a response: text parts and function calls
TextPart == [isCall |-> FALSE, name |-> ""]
CallPart(name) == [isCall |-> TRUE, name |-> name]
Responses ==
    { <<>>, <<TextPart>>, <<CallPart("plot")>>, <<TextPart, CallPart("stats")>>,
      <<CallPart("stats"), CallPart("plot")>> }

\* what executeFn gives: a chart payload (with _chartType), a plain
\* result, null, or an exception
Chart == [kind |-> "chart"]
Plain == [kind |-> "plain"]
NullResult == [kind |-> "null"]
Thrown30 == [kind |-> "throw"]
ToolOutcomes(name) ==
    IF name = "plot" THEN {Chart, Plain, Thrown30} ELSE {Plain, NullResult}

ToolFns == {"chatWithCsvTools", "chatWithYouTubeTools"}

ToolInit ==
    /\ ScrapeOff("tools")
    /\ pc = "awaitFirst"
    /\ arg \in { [f |-> f] : f \in ToolFns }
    /\ res = NoRes
    /\ ChatOff
    /\ UsersOff
    /\ round = 0
    /\ response = <<>>
    /\ toolCalls = <<>>
    /\ charts = <<>>
    /\ executed = <<>>

\* parts.find((p) => p.functionCall): its index, 0 when there is none
funcCall(parts) ==
    IF \E i \in 1..Len(parts) : parts[i].isCall
    THEN CHOOSE i \in 1..Len(parts) :
            parts[i].isCall /\ \A j \in 1..(i - 1) : ~parts[j].isCall
    ELSE 0

\* the loop runs its body: round < 5 and the response holds a function call
continues(r, parts) == r < MaxRounds /\ funcCall(parts) # 0

\* toolResult?._chartType
carries(result) == result.kind = "chart"

\* toolCalls.push({ name, args, result: toolResult })
logCall(calls, name, result) == Append(calls, [name |-> name, result |-> result])

\* mutant: every result is taken for a chart
pushAlways(list, result) == Append(list, result)

\* if (toolResult?._chartType) charts.push(toolResult)
pushChart(list, result) == IF carries(result) THEN Append(list, result) ELSE list

\* the call returns { text, charts, toolCalls } (the text is left out)
ToolReturn(cs, calls) == Returns([charts |-> cs, toolCalls |-> calls])

\* lines 189-199 and 241-249: the result is logged and sent to the model,
\* or the exception of executeFn ends the call
afterExec(name, result) ==
    IF result = Thrown30
    THEN /\ pc' = "ended"
         /\ res' = Throws([message |-> "Error"])
         /\ UNCHANGED <<toolCalls, charts>>
    ELSE /\ toolCalls' = logCall(toolCalls, name, result)
         /\ charts' = pushChart(charts, result)
         /\ pc' = "awaitSend"
         /\ UNCHANGED res

\* chat.sendMessage settles: the loop test, then executeFn (awaited only
\* by chatWithYouTubeTools) or the return
ToolResponds ==
    /\ mode = "tools"
    /\ pc \in {"awaitFirst", "awaitSend"}
    /\ \E ok \in BOOLEAN, parts \in Responses :
        IF ~ok
        THEN /\ pc' = "ended"
             /\ res' = Throws([message |-> "Error"])
             /\ UNCHANGED toolVars
        ELSE /\ response' = parts
             /\ round' = IF pc = "awaitSend" THEN round + 1 ELSE 0
             /\ IF continues(round', parts)
                THEN /\ executed' = Append(executed, parts[funcCall(parts)].name)
                     /\ IF arg.f = "chatWithCsvTools"
                        THEN \E result \in ToolOutcomes(parts[funcCall(parts)].name) :
                                afterExec(parts[funcCall(parts)].name, result)
                        ELSE /\ pc' = "awaitExec"
                             /\ UNCHANGED <<res, toolCalls, charts>>
                ELSE /\ pc' = "ended"
                     /\ res' = ToolReturn(charts, toolCalls)
                     /\ UNCHANGED <<toolCalls, charts, executed>>
    /\ UNCHANGED <<mode, html, exOut, arg, channelUrl, rawMaxVideos, listing, top, det, videos, requests, outcome>>
    /\ UNCHANGED <<chatVars, userVars>>

\* chatWithYouTubeTools: the promise of executeFn settles
ExecSettles ==
    /\ mode = "tools"
    /\ pc = "awaitExec"
    /\ \E result \in ToolOutcomes(response[funcCall(response)].name) :
        afterExec(response[funcCall(response)].name, result)
    /\ UNCHANGED <<round, response, executed>>
    /\ UNCHANGED <<mode, html, exOut, arg, channelUrl, rawMaxVideos, listing, top, det, videos, requests, outcome>>
    /\ UNCHANGED <<chatVars, userVars>>

ToolNext ==
    \/ ToolResponds
    \/ ExecSettles

vars == <<scrapeVars, app>>

SpecExtract == ExInit /\ [][CallExtract]_vars

SpecScrape == ScInitIn("scrape") /\ [][ScNext]_vars

SpecDetail == ScInitIn("detail") /\ [][ScNext]_vars

SpecRoute == RouteInit /\ [][RouteNext]_vars

SpecPure == PureInit /\ [][PureNext]_vars

\* every request to the model and every tool execution settles in the end
SpecTools == ToolInit /\ [][ToolNext]_vars /\ WF_vars(ToolNext)

SpecUsers == UsersInit /\ [][UsersNext]_vars

SpecChat == ChatInit /\ [][ChatNext]_vars

\* every route runs and every request of the component is answered or
\* fails in the end
SpecChatLive == ChatInit /\ [][ChatNext]_vars /\ WF_vars(ChatSettles)

-----------------------------------------------------------------------------
(* Reference reading of "a brace-balanced JSON object": a recursive-descent *)
(* recogniser, used only to state C1 and C2.                                *)

\* index of the closing quote of the string literal whose body starts at j
RECURSIVE RefStringEnd(_, _)
RefStringEnd(h, j) ==
    IF j > Len(h) THEN 0
    ELSE IF h[j] = "\\" THEN RefStringEnd(h, j + 2)
    ELSE IF h[j] = "\"" THEN j
    ELSE RefStringEnd(h, j + 1)

\* index of the brace closing the object whose members start at j
RECURSIVE RefObjectEnd(_, _)
RefObjectEnd(h, j) ==
    IF j > Len(h) THEN 0
    ELSE IF h[j] = "}" THEN j
    ELSE IF h[j] = "{" THEN
        LET e == RefObjectEnd(h, j + 1)
        IN  IF e = 0 THEN 0 ELSE RefObjectEnd(h, e + 1)
    ELSE IF h[j] = "\"" THEN
        LET e == RefStringEnd(h, j + 1)
        IN  IF e = 0 THEN 0 ELSE RefObjectEnd(h, e + 1)
    ELSE RefObjectEnd(h, j + 1)

RefMarkerPos(h) ==
    IF \E i \in 1..Len(h) : i + Len(Marker) - 1 <= Len(h)
                             /\ SubSeq(h, i, i + Len(Marker) - 1) = Marker
    THEN CHOOSE i \in 1..Len(h) :
            /\ i + Len(Marker) - 1 <= Len(h)
            /\ SubSeq(h, i, i + Len(Marker) - 1) = Marker
            /\ \A k \in 1..(i - 1) : SubSeq(h, k, k + Len(Marker) - 1) # Marker
    ELSE 0

\* the first opening brace after the first marker, 0 if none
RefBracePos(h) ==
    LET m == RefMarkerPos(h) IN
    IF m = 0 \/ ~\E i \in (m + Len(Marker))..Len(h) : h[i] = "{" THEN 0
    ELSE CHOOSE i \in (m + Len(Marker))..Len(h) :
            h[i] = "{" /\ \A k \in (m + Len(Marker))..(i - 1) : h[k] # "{"

RefObjectAt(h) ==
    IF RefBracePos(h) = 0 THEN 0 ELSE RefObjectEnd(h, RefBracePos(h) + 1)

\* C1: when the marker is followed by a brace-balanced object (strings may
\* hold escaped quotes and braces), extractJsonAfterMarker returns exactly
\* the text from its opening brace through its matching closing brace.
C1_ExtractReturnsObject ==
    (exOut.called /\ RefObjectAt(html) # 0) =>
        /\ ~exOut.isNull
        /\ exOut.s = SubSeq(html, RefBracePos(html), RefObjectAt(html))

EscapedQuoteAndBraces == <<"{", "\"", "\\", "\"", "}", "\"", "}">>

C1_Witness ==
    /\ exOut.called
    /\ html = Marker \o EscapedQuoteAndBraces
    /\ exOut.s = EscapedQuoteAndBraces

\* C2: extractJsonAfterMarker returns null when the marker is absent, when
\* no opening brace follows the marker, and when the text ends before the
\* brace depth is back at zero (also inside an unterminated string).
C2_ExtractNullCases ==
    exOut.called =>
        /\ RefMarkerPos(html) = 0 => exOut.isNull
        /\ RefBracePos(html) = 0 => exOut.isNull
        /\ RefObjectAt(html) = 0 => exOut.isNull

C2_Witness ==
    /\ exOut.called
    /\ exOut.isNull
    /\ html = Marker \o <<"{", "{", "}", "\"", "}", "}">>
-----------------------------------------------------------------------------
(* The aggregator: claims C3 to C10                                        *)

\* the videoId of every element of a sequence of stubs or records
IdsOf(q) == [k \in 1..Len(q) |-> q[k].videoId]

\* the video entries of the listing page, in document order
EntriesOf(page) == collectVideoRenderers(pickVideosTab(page).tab.content)

\* the call is over and gave a snapshot
HasReturned == pc = "ended" /\ outcome.kind = "return"

\* C3: every selected stub with a videoId gives exactly one record with that
\* videoId, in the order of the stubs, whichever detail fetches throw; once
\* the loop is entered with a stub no error leaves the call
C3_EveryStubOneRecord ==
    /\ IdsOf(videos) = SubSeq(IdsOf(top), 1, Len(videos))
    /\ \A k \in 1..Len(videos) : det[k].st \in Finished
    /\ (pc = "ended" /\ top # <<>>) =>
          /\ outcome.kind = "return"
          /\ IdsOf(outcome.videos) = IdsOf(top)

\* two stubs, the first fetch threw, the second returned, both are in the snapshot
C3_Witness ==
    /\ HasReturned
    /\ Len(top) = 2
    /\ det[1].st = "threw"
    /\ det[2].st = "done"
    /\ IdsOf(outcome.videos) = <<top[1].videoId, top[2].videoId>>

\* C4: the record of a video whose detail fetch threw keeps the stub's title
\* and videoId and has description, transcript, duration, likeCount and
\* commentCount null, and viewCount null when the stub had none
C4_FallbackFieldsNull ==
    \A k \in 1..Len(videos) :
        det[k].st = "threw" =>
            /\ videos[k].videoId = top[k].videoId
            /\ videos[k].title = top[k].title
            /\ videos[k].description.k = "null"
            /\ videos[k].transcript.k = "null"
            /\ videos[k].duration.k = "null"
            /\ videos[k].likeCount.k = "null"
            /\ videos[k].commentCount.k = "null"
            /\ (top[k].viewCount.k = "null" => videos[k].viewCount.k = "null")

\* C5: with n video entries in the listing and a limit maxVideos in 1..100
\* the call returns exactly min(n, maxVideos) records, those of the first
\* min(n, maxVideos) entries in document order
C5_FirstMinRecords ==
    (/\ pc = "ended"
     /\ listing.blob = "ok"
     /\ EntriesOf(listing) # <<>>
     /\ clampMaxVideos(rawMaxVideos).k = "num") =>
        /\ outcome.kind = "return"
        /\ IdsOf(outcome.videos) =
              IdsOf(SubSeq(EntriesOf(listing), 1,
                           Min(Len(EntriesOf(listing)), clampMaxVideos(rawMaxVideos).n)))

\* C6: at most one detail fetch is in progress, and a fetch has started only
\* when every fetch before it has returned or thrown
C6_OneFetchAtATime ==
    /\ Cardinality({i \in 1..Len(det) : det[i].st \in InProgress}) <= 1
    /\ \A i \in 1..Len(det) :
          det[i].st # "notStarted" => \A j \in 1..(i - 1) : det[j].st \in Finished

\* the second fetch is in progress after the first has finished
C6_Witness ==
    /\ Len(det) = 2
    /\ det[1].st \in Finished
    /\ det[2].st \in InProgress

\* C7: no URL is requested twice for the same video within one call
C7_NoRequestTwice ==
    \A a, b \in 1..Len(requests) : a # b => requests[a] # requests[b]

IsTimestamp(r) ==
    r.k = "iso" /\ r.m \in 1..12 /\ r.d \in 1..31 /\ r.txt = <<>>

\* C8: the releaseDate of every record is null or an ISO-8601 timestamp,
\* never a relative phrase
C8_ReleaseDateNeverRelative ==
    \A k \in 1..Len(videos) :
        videos[k].releaseDate.k = "null" \/ IsTimestamp(videos[k].releaseDate)

\* a returned record whose date was induced from the stub's relative phrase,
\* for a fetch that threw and for one that returned
C8_Witness ==
    /\ HasReturned
    /\ \E k \in 1..Len(outcome.videos) :
          /\ det[k].st = "threw"
          /\ ~top[k].relativePublished.isNull
          /\ IsTimestamp(outcome.videos[k].releaseDate)
    /\ \E k \in 1..Len(outcome.videos) :
          /\ det[k].st = "done"
          /\ det[k].result.releaseDate.k = "null"
          /\ IsTimestamp(outcome.videos[k].releaseDate)

IsCountOrNull(n) == n.k = "null" \/ (n.k = "num" /\ n.d = 1 /\ n.n >= 0)

\* the page states a comment count of zero
StatesZeroComments(page) == page.htmlText = Str(Txt.comments_0)

\* C9: the three counts of a record are null or non-negative integers; a
\* view count is 0 only if the stub or the detail gave 0; a comment count
\* the page states as zero is 0, not null
C9_CountsNullOrExtracted ==
    \A k \in 1..Len(videos) :
        /\ IsCountOrNull(videos[k].viewCount)
        /\ IsCountOrNull(videos[k].likeCount)
        /\ IsCountOrNull(videos[k].commentCount)
        /\ videos[k].viewCount = Num(0) =>
              \/ top[k].viewCount = Num(0)
              \/ det[k].st = "done" /\ det[k].result.viewCount = Num(0)
        /\ (det[k].st = "done" /\ StatesZeroComments(det[k].page)
            /\ det[k].comment.source # "youtubei") =>
              videos[k].commentCount = Num(0)

\* C10: the call ends with a non-empty snapshot or with an error; with no
\* stub or no record the error is 'No videos found'; a failure of the
\* listing request, the blob, its JSON or the tab lookup gives an error
C10_AllOrNothing ==
    pc = "ended" =>
        /\ \/ outcome.kind = "return" /\ outcome.videos # <<>>
           \/ outcome.kind = "throw" /\ outcome.videos = <<>>
        /\ outcome.kind = "return" => outcome.videos = videos /\ listing.blob = "ok"
        /\ (listing.blob = "ok" /\ ~pickVideosTab(listing).isNull /\ top = <<>>) =>
              outcome = Thrown("No videos found")
        /\ (extractHandle(channelUrl) # <<>>
            /\ (listing.blob # "ok" \/ pickVideosTab(listing).isNull)) =>
              outcome.kind = "throw"

\* the listing has entries, none gave a stub, and the call threw
C10_Witness ==
    /\ pc = "ended"
    /\ listing.blob = "ok"
    /\ EntriesOf(listing) # <<>>
    /\ top = <<>>
    /\ outcome = Thrown("No videos found")

-----------------------------------------------------------------------------
(* Inputs of the aggregator: claims C11 to C13                             *)

\* the channel URL has one of the two documented forms (surrounding blanks,
\* the letter case of the host and a path after the handle are let through)
IsOfDocumentedForm(url) ==
    /\ ~url.isNull
    /\ LET u == Trim(url.s)
       IN  \/ /\ Len(u) >= 4
              /\ u[1] = "https://www."
              /\ u[2] \in {"youtube.com/", "YouTube.com/"}
              /\ u[3] = "@"
              /\ u[4] = "veritasium"
           \/ u = <<"@", "veritasium">>

\* C11: a channel URL of neither documented form makes the call fail with
\* the invalid-URL error before any HTTP request, and no request is ever
\* issued unless a handle was extracted.
C11_OtherFormsRejected ==
    /\ (pc # "idle" /\ ~IsOfDocumentedForm(channelUrl)) =>
            /\ pc = "ended"
            /\ outcome = Thrown(InvalidUrlMessage)
            /\ requests = <<>>
    /\ requests # <<>> => extractHandle(channelUrl) # <<>>

\* C12: a numeric maxVideos argument outside 1..100 makes the call fail
\* with an error before anything is requested.
C12_CoreRejectsOutOfRange ==
    (pc # "idle" /\ rawMaxVideos.k = "num"
     /\ rawMaxVideos.n \notin MinVideos..MaxVideosCap) =>
        /\ pc = "ended"
        /\ outcome.kind = "throw"
        /\ requests = <<>>

\* the scrape was called by the route
CoreCalled == mode = "route" /\ (pc \in {"idle", "awaitListing", "loop", "ended"}
                                \/ (pc = "responded" /\ outcome.kind # "none"))

\* C13: whatever maxVideos the request body carries, the limit the core
\* truncates the listing with, after the clamping in the route and in the
\* core, is an integer from 1 to 100.
C13_LimitInRange ==
    CoreCalled =>
        /\ clampMaxVideos(rawMaxVideos).k = "num"
        /\ clampMaxVideos(rawMaxVideos).n \in MinVideos..MaxVideosCap
        /\ Len(top) <= clampMaxVideos(rawMaxVideos).n

C13_Witness ==
    /\ CoreCalled
    /\ pc = "responded"
    /\ arg.maxVideos = RawText
    /\ rawMaxVideos = RawNaN
    /\ clampMaxVideos(rawMaxVideos) = Num(DefaultMaxVideos)
    /\ res.status = 200

-----------------------------------------------------------------------------
(* Counts: claims C14 to C16                                               *)

HasDigit(t) == \E i \in 1..Len(t) : t[i] \in Digits

\* C14: parseCountText returns null for a text without a digit and an
\* integer for every other text; "1.2M" gives 1200000, "3,400" gives 3400
\* and "no data" gives null.
C14_IntegerOrNull ==
    (mode = "pure" /\ pc = "returned" /\ arg.f = "parseCountText") =>
        /\ (arg.x.isNull \/ ~HasDigit(arg.x.s)) => res.v = NullNum
        /\ (~arg.x.isNull /\ HasDigit(arg.x.s)) => res.v.k = "num" /\ res.v.d = 1
        /\ arg.x = Str(<<"1", ".", "2", "M">>) => res.v = Num(1200000)
        /\ arg.x = Str(<<"3", ",", "4", "0", "0">>) => res.v = Num(3400)
        /\ arg.x = Str(<<"n", "o", " ", "d", "a", "t", "a">>) => res.v = NullNum

\* C15: when the player response gives no finite view count and the first
\* view label of the initial data is "1.2M views", the details report
\* 1200000 views.
C15_ViewLabelSuffix ==
    \A k \in 1..Len(det) :
        (/\ det[k].st = "done"
         /\ ~IsFinite(parseCountText(det[k].page.viewCountRaw))
         /\ hasInitial(det[k].page)
         /\ FindViewLabel(collectStrings(det[k].page.data)) = Str(Txt.views_1_2M)) =>
            det[k].result.viewCount = Num(1200000)

Elems(q) == {q[i] : i \in 1..Len(q)}

\* the numbers the like candidates of a watch page parse to
LikeParses(page) ==
    IF ~hasInitial(page) THEN {}
    ELSE { v \in { parseCountText(Str(c)) :
                     c \in { s \in Elems(collectStrings(page.data)) : HasLikeWord(s) }
                           \cup Elems(page.data.likeKeys) } : IsFinite(v) }

\* C16: the like count is the largest number a candidate parses to, and
\* null when no candidate parses; with the candidates "1.2K" and "1,243"
\* it is 1243.
C16_LargestLikeCandidate ==
    \A k \in 1..Len(det) :
        det[k].st = "done" =>
            /\ LikeParses(det[k].page) = {} => det[k].result.likeCount = NullNum
            /\ LikeParses(det[k].page) # {} =>
                  /\ det[k].result.likeCount \in LikeParses(det[k].page)
                  /\ \A v \in LikeParses(det[k].page) :
                        v.n * det[k].result.likeCount.d <= det[k].result.likeCount.n * v.d
            /\ det[k].page = Pages.full => det[k].result.likeCount = Num(1243)

C16_Witness ==
    \E k \in 1..Len(det) :
        /\ det[k].st = "done"
        /\ det[k].page = Pages.full
        /\ Num(1200) \in LikeParses(det[k].page)
        /\ det[k].result.likeCount = Num(1243)

-----------------------------------------------------------------------------
(* Release dates: claims C17 to C19                                        *)

DateCall == mode = "pure" /\ pc = "returned"
            /\ arg.f \in {"normalizeReleaseDate", "backwardInductionDate"}

DaysInMonth(y, m) ==
    DaysFromCivil(IF m = 12 THEN y + 1 ELSE y, IF m = 12 THEN 1 ELSE m + 1, 1)
    - DaysFromCivil(y, m, 1)

\* month index k (months since year 0) with the day of month d, no later
\* than the last day of that month
ClampedDay(k, d) ==
    DaysFromCivil(k \div 12, (k % 12) + 1, Min(d, DaysInMonth(k \div 12, (k % 12) + 1)))

\* now moved back n months keeping the day of month
MonthsBack(now, n) ==
    LET c == CivilFromDays(now.days)
    IN  DateObj(ClampedDay(c.y * 12 + c.m - 1 - n, c.d), now.min)

\* C17: 'N months ago' and 'N years ago' (N up to 14) give the day of month
\* of now in the month N months or years earlier, or that month's last day
\* when it is shorter; the time of day is kept.
C17_DayOfMonthKept ==
    (/\ DateCall
     /\ ~arg.raw.isNull
     /\ IsRelative(arg.raw.s)
     /\ UnitOf(arg.raw.s[2]) \in {"month", "year"}
     /\ NumTokenVal(arg.raw.s[1]) <= 14) =>
        /\ res.kind = "return"
        /\ (IF arg.f = "normalizeReleaseDate" THEN res.v.ms ELSE res.v)
             = MonthsBack(arg.now, IF UnitOf(arg.raw.s[2]) = "year"
                                   THEN 12 * NumTokenVal(arg.raw.s[1])
                                   ELSE NumTokenVal(arg.raw.s[1]))

\* C18: a text that begins with Streamed, Premiered or Uploaded, in any
\* letter case, is normalized as the text without that word; 'Streamed Jan
\* 1, 2020' gives 2020-01-01T00:00:00.000Z.
C18_PrefixIgnored ==
    (/\ DateCall
     /\ ~arg.raw.isNull
     /\ arg.raw.s # <<>>
     /\ LowerToken(arg.raw.s[1]) \in {"streamed", "premiered", "uploaded"}) =>
        /\ res = IF arg.f = "normalizeReleaseDate"
                 THEN normalizeReleaseDate(Str(Tail(arg.raw.s)), arg.now)
                 ELSE Returns(backwardInductionDate(Str(Tail(arg.raw.s)), arg.now))
        /\ (arg.f = "normalizeReleaseDate"
            /\ arg.raw = Str(<<"Streamed", "Jan", "1,", "2020">>)) =>
              res.v.iso = DateText("stamp", 2020, 1, 1, 0, 0)

\* C19: normalizeReleaseDate returns a pair and never throws; iso is null
\* exactly when ms is, and otherwise iso renders the instant ms.
C19_PairNeverThrows ==
    (DateCall /\ arg.f = "normalizeReleaseDate") =>
        /\ res.kind = "return"
        /\ res.v.iso = NoDateText <=> res.v.ms.isNull
        /\ ~res.v.ms.isNull =>
              /\ res.v.iso.f = "stamp"
              /\ DaysFromCivil(res.v.iso.y, res.v.iso.m, res.v.iso.d) = res.v.ms.days
              /\ res.v.iso.min = res.v.ms.min
              /\ res.v.iso.off = 0

-----------------------------------------------------------------------------
(* The tree scan of the listing: claim C20                                 *)

\* the children of a node: in the order of the document, or an object's
\* in the order Object.values gives them
KidsOf(node, asValues) ==
    IF asValues /\ node.k = "obj" THEN ObjectValues(node.kids) ELSE node.kids

\* the node is an object with the marker key (and a truthy value under it)
HasEntry(node, truthyOnly) ==
    /\ node.k = "obj"
    /\ \E i \in 1..Len(node.kids) :
          /\ node.kids[i].key = "videoRenderer"
          /\ truthyOnly => node.kids[i].val.truthy

EntryOf(node) ==
    node.kids[CHOOSE i \in 1..Len(node.kids) : node.kids[i].key = "videoRenderer"].val

\* the paths (child positions from the root) of the objects with an entry
RECURSIVE PathsIn(_, _, _)
PathsIn(node, asValues, truthyOnly) ==
    (IF HasEntry(node, truthyOnly) THEN {<<>>} ELSE {})
    \cup UNION { { <<i>> \o q : q \in PathsIn(KidsOf(node, asValues)[i].val,
                                                 asValues, truthyOnly) } :
                 i \in 1..Len(node.kids) }

RECURSIVE At(_, _, _)
At(node, path, asValues) ==
    IF path = <<>> THEN node
    ELSE At(KidsOf(node, asValues)[path[1]].val, Tail(path), asValues)

\* path a comes before path b in pre-order: a node before what it holds,
\* and an earlier child before a later one
Before(a, b) ==
    \E i \in 1..Len(b) :
        /\ i - 1 <= Len(a)
        /\ SubSeq(a, 1, i - 1) = SubSeq(b, 1, i - 1)
        /\ i = Len(a) + 1 \/ (i <= Len(a) /\ a[i] < b[i])

\* the entries of the tree, one per object that has one, in pre-order
InPreOrder(node, asValues, truthyOnly) ==
    LET P == PathsIn(node, asValues, truthyOnly)
    IN  [j \in 1..Cardinality(P) |->
            EntryOf(At(node, CHOOSE a \in P : Cardinality({b \in P : Before(b, a)}) = j - 1,
                       asValues))]

TreeCall == mode = "pure" /\ pc = "returned" /\ arg.f = "collectVideoRenderers"

ThreeDeep == Grid(<<PlainRenderer("a"), PlainRenderer("b"), PlainRenderer("c")>>)

\* C20: collectVideoRenderers gives the value under the marker key of every
\* object of the tree, once per occurrence, in pre-order with the children
\* in the order of the document; three entries four levels deep give three
\* stubs in that order.
C20_EveryEntryInDocumentOrder ==
    TreeCall =>
        /\ res.v = InPreOrder(arg.node, FALSE, FALSE)
        /\ arg.node = ThreeDeep =>
              IdsOf(StubsOf(res.v)) = <<"a", "b", "c">>

\* C20, amended: collectVideoRenderers gives every truthy value under the
\* marker key, once per occurrence, in pre-order: an object's own entry
\* before those held by its values, the values in the order Object.values
\* gives them; three entries four levels deep give three stubs in order.
C20_TruthyEntriesInValuesOrder ==
    TreeCall =>
        /\ res.v = InPreOrder(arg.node, TRUE, TRUE)
        /\ arg.node = ThreeDeep =>
              IdsOf(StubsOf(res.v)) = <<"a", "b", "c">>

C20_Witness ==
    /\ TreeCall
    /\ arg.node = ThreeDeep
    /\ Len(res.v) = 3
    /\ IdsOf(StubsOf(res.v)) = <<"a", "b", "c">>

-----------------------------------------------------------------------------
(* The snapshot and the detail fetch: claims C21 to C26                    *)

\* C21: the records of a returned snapshot have pairwise distinct videoIds,
\* also when the listing holds the same video entry more than once.
C21_VideoIdsDistinct ==
    HasReturned =>
        \A i, j \in 1..Len(outcome.videos) :
            i # j => outcome.videos[i].videoId # outcome.videos[j].videoId

\* the absolute date the detail fetch of stub k extracted, null if none
AbsoluteDate(k) ==
    IF det[k].st = "done" THEN normalizeIsoDate(det[k].page.publishRaw) ELSE NullDate

\* the dates backward induction gives for the relative label of stub k
InducedDates(k) == {inducedIsoOf(top[k].relativePublished, now) : now \in NowPoolIn(mode)}

\* C22: a record's releaseDate is the detail fetch's normalized publish
\* date when there is one; otherwise (no such date, or the fetch failed) it
\* is induced from the stub's relative label, and it is null when neither
\* source yields a date.
C22_AbsoluteDateFirst ==
    \A k \in 1..Len(videos) :
        /\ AbsoluteDate(k) # NullDate => videos[k].releaseDate = AbsoluteDate(k)
        /\ AbsoluteDate(k) = NullDate => videos[k].releaseDate \in InducedDates(k)
        /\ (AbsoluteDate(k) = NullDate /\ top[k].relativePublished.isNull) =>
              videos[k].releaseDate = NullDate

\* one record dated by its detail fetch although the stub has a label, and
\* one dated by induction after its fetch failed
C22_Witness ==
    \E i, j \in 1..Len(videos) :
        /\ AbsoluteDate(i) # NullDate
        /\ ~top[i].relativePublished.isNull
        /\ videos[i].releaseDate = AbsoluteDate(i)
        /\ det[j].st = "threw"
        /\ videos[j].releaseDate.k = "iso"

\* what each local strategy finds in a watch page
PanelsGive(page) ==
    /\ hasInitial(page)
    /\ \E i \in 1..Len(page.data.panels) : CountInParts(Reverse(page.data.panels[i])).k # "null"
SectionsGive(page) ==
    /\ hasInitial(page)
    /\ \E i \in 1..Len(page.data.sections) : CountInParts(Reverse(page.data.sections[i])).k # "null"
DocumentGives(page) ==
    /\ hasInitial(page)
    /\ \/ \E s \in Elems(collectStrings(page.data)) : parseCommentsNumber(Str(s)).k # "null"
       \/ fromTokenNeighbors(collectAllStrings(page.data)).k # "null"
HtmlGives(page) ==
    \/ parseCommentsNumber(page.htmlText).k # "null"
    \/ parseCommentsNumber(page.snippet).k # "null"

\* the first local strategy that succeeds, by its source name
FirstLocal(page) ==
    IF PanelsGive(page) THEN "engagementPanels"
    ELSE IF SectionsGive(page) THEN "itemSectionRenderer"
    ELSE IF DocumentGives(page) THEN "recursive"
    ELSE IF HtmlGives(page) THEN "html"
    ELSE "none"

NextRequested(k) == \E r \in 1..Len(requests) : requests[r].stub = k /\ requests[r].kind = "next"

\* C23: the comment count comes from the first strategy that succeeds in
\* the order panels, item sections, whole document, raw html, next call;
\* the next call is issued only when the four local ones failed, and the
\* count is null when all five fail.
C23_FirstStrategyWins ==
    \A k \in 1..Len(det) :
        /\ NextRequested(k) => FirstLocal(det[k].page) = "none"
        /\ det[k].st = "done" =>
              /\ FirstLocal(det[k].page) # "none" =>
                    /\ det[k].result.commentCountSource = FirstLocal(det[k].page)
                    /\ det[k].result.commentCount # NullNum
              /\ FirstLocal(det[k].page) = "none" =>
                    /\ det[k].result.commentCountSource \in {"youtubei", "none"}
                    /\ det[k].result.commentCountSource = "youtubei" => NextRequested(k)
              /\ det[k].result.commentCountSource = "none"
                    <=> det[k].result.commentCount = NullNum

\* the sections give the count although the document and the html hold
\* other counts, and nothing was requested
C23_Witness ==
    \E k \in 1..Len(det) :
        /\ det[k].st = "done"
        /\ det[k].page = Pages.sect
        /\ DocumentGives(det[k].page)
        /\ det[k].result.commentCountSource = "itemSectionRenderer"
        /\ det[k].result.commentCount = Num(15)
        /\ ~NextRequested(k)

-----------------------------------------------------------------------------
(* The videos tab: claim C24                                               *)

\* tab t meets criterion c: 1 the title is 'videos', 2 the title contains
\* 'video', 3 the tab is selected, 4 any tab
Meets(t, c) ==
    CASE c = 1 -> t.title \in {"Videos", "videos"}
      [] c = 2 -> t.title \in {"Videos", "videos", "Video uploads"}
      [] c = 3 -> t.selected
      [] c = 4 -> TRUE

\* the highest-priority criterion that some tab of a non-empty list meets
BestCriterion(tabs) ==
    CHOOSE c \in 1..4 :
        /\ \E i \in 1..Len(tabs) : Meets(tabs[i], c)
        /\ \A b \in 1..(c - 1) : \A i \in 1..Len(tabs) : ~Meets(tabs[i], b)

TabCall == mode = "pure" /\ pc = "returned" /\ arg.f = "pickVideosTab"

\* C24: pickVideosTab returns the first tab that meets the highest-priority
\* criterion any tab meets, and null only when there is no tab list or the
\* list is empty.
C24_FirstTabOfBestCriterion ==
    TabCall =>
        /\ res.v.isNull <=> (arg.data.tabs.isNull \/ arg.data.tabs.s = <<>>)
        /\ ~res.v.isNull =>
              \E i \in 1..Len(arg.data.tabs.s) :
                  /\ res.v.tab = arg.data.tabs.s[i]
                  /\ Meets(arg.data.tabs.s[i], BestCriterion(arg.data.tabs.s))
                  /\ \A j \in 1..(i - 1) :
                        ~Meets(arg.data.tabs.s[j], BestCriterion(arg.data.tabs.s))

\* a selected tab stands before the tab whose title contains 'video', and
\* the latter is returned
C24_Witness ==
    /\ TabCall
    /\ arg.data.tabs = Str(<<Tab("Home", FALSE, NullLeaf), Tab("Shorts", TRUE, NullLeaf),
                             Tab("Video uploads", FALSE, NullLeaf)>>)
    /\ res.v.tab = Tab("Video uploads", FALSE, NullLeaf)

-----------------------------------------------------------------------------
(* The markers of a blob: claim C25                                        *)

\* C25: the blob is parsed exactly when the text after some marker is
\* extracted and parses; a marker whose text does not parse does not end
\* the search.
C25_SearchUntilParseable ==
    (mode = "pure" /\ pc = "returned" /\ arg.f = "blobStatus") =>
        (res.v = "ok" <=>
            \E i \in 1..Len(BlobMarkers) :
                /\ ~extractJsonAfterMarker(arg.html, BlobMarkers[i]).isNull
                /\ JsonParses(extractJsonAfterMarker(arg.html, BlobMarkers[i]).s))

-----------------------------------------------------------------------------
(* The blobs of the watch page: claim C26                                  *)

\* the watch page of the call arrived (fetchHtml resolved)
WatchArrived(d) == d.page # NotStarted(d.i, d.videoId).page

\* C26: a detail fetch whose watch page arrived returns a detail, whichever
\* blob is missing or does not parse; it throws only when the page itself
\* could not be fetched.
C26_BlobFailureNotFatal ==
    \A k \in 1..Len(det) :
        (det[k].st \in Finished /\ WatchArrived(det[k])) => det[k].st = "done"

-----------------------------------------------------------------------------
(* The Chat component: claims C27 and C28                                  *)

\* handleSend invocation i created a session
Made(i) == sends[i].sessionId = SessionId(i)

\* C27: of the handleSend invocations called in the same unsaved 'new'
\* chat (no reset of the chat between them), at most one creates a session.
C27_AtMostOneSession ==
    \A i, j \in 1..Len(sends) :
        (i # j /\ sends[i].chat = sends[j].chat) => ~(Made(i) /\ Made(j))

-----------------------------------------------------------------------------
(* The user store: claim C29                                               *)

\* C29: at most one user document exists per normalized username, and a
\* registration answered 'Username already exists' inserted nothing.
C29_OneUserPerName ==
    /\ \A i, j \in 1..Len(users) : i # j => users[i].username # users[j].username
    /\ \A i \in 1..Len(users) : regs[users[i].by].error # "Username already exists"

-----------------------------------------------------------------------------
(* The tool loop: claim C30                                                *)

\* the results of the logged calls, in order
ResultsOf(calls) == [i \in 1..Len(calls) |-> calls[i].result]

ToolEnded == mode = "tools" /\ pc = "ended"

ToolBounded ==
    /\ Len(executed) <= 5
    /\ (ToolEnded /\ res.kind = "return") =>
          /\ Len(res.v.toolCalls) = Len(executed)
          /\ \A i \in 1..Len(executed) : res.v.toolCalls[i].name = executed[i]
          /\ res.v.charts = SelectSeq(ResultsOf(res.v.toolCalls), LAMBDA r : r.kind = "chart")

\* C30: the call ends, after at most 5 tool executions whatever the model
\* requests; the toolCalls returned list the executed tools in order and the
\* charts returned are the results among them that carry a _chartType.
C30_BoundedToolLoop == []ToolBounded /\ <>ToolEnded

\* five tools ran, some with charts and some without, the model asked for
\* a sixth and the call returned
C30_Witness ==
    /\ ToolEnded
    /\ res.kind = "return"
    /\ Len(res.v.toolCalls) = 5
    /\ funcCall(response) # 0
    /\ Len(res.v.charts) \in 1..4

====
